---- MODULE Spec2Model ----
(***************************************************************************)
(* Placeholder-splice engine and pipeline orchestrators of plg_hsdt.       *)
(*                                                                         *)
(* A document body is a sequence of blocks (paragraphs and tables); a text *)
(* is a sequence of one-character strings, so that a placeholder can span  *)
(* several runs.  None is written 0 in numeric fields and <<>> in lists.   *)
(***************************************************************************)
EXTENDS Integers, Sequences, FiniteSets, TLC

\* ------------------------------------------------------------------ bounds
\* Longest target body and longest content body the splice model explores.
MaxTarget == 3
MaxSource == 2
MaxLines == 2
MaxMissing == 1
MaxRows == 2
MaxLabel == 3
MaxSteps == 3
MaxRequests == 2
MaxUploads == 3
\* longest paragraph text and most runs of the run-level replacement
MaxText == 5
MaxRuns == 3
\* most lines of a text handed to one of the line parsers
MaxSection == 4
\* longest PDF text of the boundary extraction
MaxPdf == 4

\* --------------------------------------------------------- program constants
Pt14 == 14
SpacingBefore == 120
SpacingAfter == 120
SpacingLine == 360
RowMinHeight == 600
\* line_spacing multiple 1.3 in 240ths of a line
DefaultLine == 312
\* markdown_to_docx: space_after = Pt(6), first_line_indent = Inches(0.5) in twips
Pt6 == 6
HalfInch == 720

\* ------------------------------------------------------------------- text
Whitespace == {" ", "\n"}

\* "{{name}}", abbreviated to three characters
Placeholder(name) == <<"{", name, "}">>

\* the five tags of the 02_MUC_DO_HIEU_BIET template
ten_goi_thau == "g"
pham_vi_cung_cap == "v"
can_cu_phap_ly == "c"
muc_dich_cong_viec == "m"
cac_buoc_thuc_hien == "b"

\* the sentinel "[KHÔNG TÌM THẤY]"
KHONG_TIM_THAY == <<"[", "?", "]">>

\* Python: sub in s
Contains(s, sub) ==
    \E i \in 1..(Len(s) - Len(sub) + 1) : SubSeq(s, i, i + Len(sub) - 1) = sub

\* Python: s.find(sub), 0-based, for a sub that occurs in s
find(s, sub) ==
    (CHOOSE i \in 1..(Len(s) - Len(sub) + 1) :
        /\ SubSeq(s, i, i + Len(sub) - 1) = sub
        /\ \A j \in 1..(i - 1) : SubSeq(s, j, j + Len(sub) - 1) # sub) - 1

\* Python: bool(s.strip())
strip(s) == \E i \in 1..Len(s) : s[i] \notin Whitespace

\* Python: s.replace(old, new), every occurrence, left to right
RECURSIVE str_replace(_, _, _)
str_replace(s, old, new) ==
    IF Len(s) < Len(old) \/ Len(old) = 0 THEN s
    ELSE IF SubSeq(s, 1, Len(old)) = old
         THEN new \o str_replace(SubSeq(s, Len(old) + 1, Len(s)), old, new)
         ELSE <<s[1]>> \o str_replace(Tail(s), old, new)

\* ------------------------------------------------------- document model
\* python-docx paragraph.text: the concatenation of the run texts
RECURSIVE runs_text(_)
runs_text(runs) ==
    IF runs = <<>> THEN <<>> ELSE Head(runs).text \o runs_text(Tail(runs))

text(p) == runs_text(p.runs)

IsParagraph(b) == b.kind = "p"
IsTable(b) == b.kind = "t"

\* python-docx doc.paragraphs / doc.tables: the body's direct children
paragraphs(body) == SelectSeq(body, IsParagraph)
tables(body) == SelectSeq(body, IsTable)

\* body positions (1-based) of the direct-child paragraphs, in order
RECURSIVE para_positions(_, _)
para_positions(body, from) ==
    IF from > Len(body) THEN <<>>
    ELSE IF IsParagraph(body[from])
         THEN <<from>> \o para_positions(body, from + 1)
         ELSE para_positions(body, from + 1)

\* lxml parent.insert(index, el), index 0-based
parent_insert(body, index, el) ==
    SubSeq(body, 1, index) \o <<el>> \o SubSeq(body, index + 1, Len(body))

\* lxml parent.remove(child) of the child at 0-based index
parent_remove(body, index) ==
    SubSeq(body, 1, index) \o SubSeq(body, index + 2, Len(body))

\* rank (1-based, among doc.paragraphs) of the first paragraph whose text
\* contains the placeholder; 0 when the loop ends without a match
\* the other choice a search could make: the last paragraph that holds it
last_match(body, placeholder) ==
    LET ps == paragraphs(body)
        hits == {k \in 1..Len(ps) : Contains(text(ps[k]), placeholder)}
    IN  IF hits = {} THEN 0
        ELSE CHOOSE k \in hits : \A j \in hits : k >= j

first_match(body, placeholder) ==
    LET ps == paragraphs(body)
        hits == {k \in 1..Len(ps) : Contains(text(ps[k]), placeholder)}
    IN  IF hits = {} THEN 0
        ELSE CHOOSE k \in hits : \A j \in hits : k <= j

\* ------------------------------------------------------ content selection
HasContent(b) == IsParagraph(b) /\ strip(text(b))

\* a selection without the strip() filter: every paragraph, then the tables
every_element(source_body) ==
    paragraphs(source_body) \o tables(source_body)

\* all_elements: the non-blank paragraphs, then the tables
all_elements(source_body) ==
    SelectSeq(source_body, HasContent) \o tables(source_body)

\* source_paragraphs of the can_cu / muc_dich variant: paragraphs only
source_paragraphs(source_body) == SelectSeq(source_body, HasContent)

\* ------------------------------------------------- formatting enhancements
SpacingOverride ==
    [before |-> SpacingBefore, after |-> SpacingAfter,
     line |-> SpacingLine, lineRule |-> "auto"]

HeightOverride == [val |-> RowMinHeight, hRule |-> "atLeast"]

\* ENHANCE PARAGRAPH SPACING: find or create pPr, drop the spacing entry that
\* find() returns (the first), append the new one
enhance_paragraph(p) ==
    [p EXCEPT !.pPr = TRUE,
              !.spacing = (IF p.spacing = <<>> THEN <<>> ELSE Tail(p.spacing))
                          \o <<SpacingOverride>>]

\* trPr.find(trHeight), remove, append: drop the first height entry, add the
\* new one
set_height(trHeight) ==
    (IF trHeight = <<>> THEN <<>> ELSE Tail(trHeight)) \o <<HeightOverride>>

\* the first row with a trPr among the rows of the tables nested in a row's
\* cells, 0 when there is none
first_nested_trPr(nested) ==
    IF \A n \in 1..Len(nested) : ~nested[n].trPr THEN 0
    ELSE CHOOSE n \in 1..Len(nested) :
            nested[n].trPr /\ \A j \in 1..(n - 1) : ~nested[j].trPr

\* One row of findall('.//tr') and after it the rows nested in its cells,
\* which the same list holds. row.find('.//trPr') is a search among all
\* descendants: the row's own trPr when it has one, otherwise the first trPr
\* of a nested row, and only when there is none a new trPr of the row.
enhance_row(row) ==
    LET hit == first_nested_trPr(row.nested)
        r1 == IF row.trPr THEN [row EXCEPT !.trHeight = set_height(@)]
              ELSE IF hit > 0
              THEN [row EXCEPT !.nested[hit].trHeight = set_height(@)]
              ELSE [row EXCEPT !.trPr = TRUE, !.trHeight = set_height(@)]
    IN  [r1 EXCEPT !.nested = [n \in 1..Len(r1.nested) |->
            [trPr |-> TRUE, trHeight |-> set_height(r1.nested[n].trHeight)]]]

\* ENHANCE TABLE ROW HEIGHT: every row of the copied table
enhance_table(t) ==
    [t EXCEPT !.rows = [r \in 1..Len(t.rows) |-> enhance_row(t.rows[r])]]

enhance(b) == IF IsParagraph(b) THEN enhance_paragraph(b) ELSE enhance_table(b)

\* for element in reversed(elements): parent.insert(index, deepcopy(element)),
\* with the spacing / row-height enhancement when enhanced
RECURSIVE insert_reversed(_, _, _, _)
insert_reversed(body, index, elements, enhanced) ==
    IF elements = <<>> THEN body
    ELSE LET el == elements[Len(elements)]
             new == IF enhanced THEN enhance(el) ELSE el
         IN  insert_reversed(parent_insert(body, index, new), index,
                             SubSeq(elements, 1, Len(elements) - 1), enhanced)

\* The find-and-replace loop shared by replace_placeholder_only, the
\* processors' replace_placeholder, smart_replace and smart_replace_final.
splice_elements(body, placeholder, elements, enhanced) ==
    LET k == first_match(body, placeholder)
    IN  IF k = 0 THEN [found |-> FALSE, body |-> body]
        ELSE LET index == para_positions(body, 1)[k] - 1
             IN  [found |-> TRUE,
                  body |-> insert_reversed(parent_remove(body, index), index,
                                           elements, enhanced)]

\* ------------------------------------- python-docx paragraph_format, fonts
\* the first w:spacing entry of the paragraph, or an entry with every
\* attribute unset
spacing_of(p) ==
    IF p.spacing = <<>>
    THEN [before |-> 0, after |-> 0, line |-> 0, lineRule |-> "none"]
    ELSE Head(p.spacing)

\* the paragraph with its first w:spacing entry replaced (pPr and the entry
\* are created when missing)
with_spacing(p, s) ==
    [p EXCEPT !.pPr = TRUE,
              !.spacing = <<s>> \o (IF p.spacing = <<>> THEN <<>>
                                    ELSE Tail(p.spacing))]

\* paragraph_format.line_spacing: unset, a multiple of a line (lineRule
\* auto or missing) or a fixed length (exact / atLeast)
line_spacing(p) ==
    LET s == spacing_of(p)
    IN  IF s.line = 0 THEN [val |-> 0, unit |-> "none"]
        ELSE IF s.lineRule \in {"exact", "atLeast"}
             THEN [val |-> s.line, unit |-> "length"]
             ELSE [val |-> s.line, unit |-> "multiple"]

\* src_p.paragraph_format.line_spacing or 1.3
line_spacing_or_default(p) ==
    IF line_spacing(p).val = 0
    THEN [val |-> DefaultLine, unit |-> "multiple"]
    ELSE line_spacing(p)

\* paragraph_format.line_spacing = v, v not None: a length keeps an atLeast
\* rule and otherwise becomes exact, a multiple sets the auto rule
set_line_spacing(p, v) ==
    LET s == spacing_of(p)
    IN  with_spacing(p,
            [s EXCEPT !.line = v.val,
                      !.lineRule = IF v.unit = "length"
                                   THEN (IF s.lineRule = "atLeast"
                                         THEN "atLeast" ELSE "exact")
                                   ELSE "auto"])

\* paragraph_format.space_before = v / space_after = v (v may be None)
set_space_before(p, v) ==
    IF v = 0 /\ p.spacing = <<>> THEN [p EXCEPT !.pPr = TRUE]
    ELSE with_spacing(p, [spacing_of(p) EXCEPT !.before = v])

set_space_after(p, v) ==
    IF v = 0 /\ p.spacing = <<>> THEN [p EXCEPT !.pPr = TRUE]
    ELSE with_spacing(p, [spacing_of(p) EXCEPT !.after = v])

\* run.font.size = src_run.font.size or Pt(14);
\* run.font.name = src_run.font.name or "Times New Roman";
\* the defaults also when src_p has no run at run_idx (IndexError)
copy_fonts(runs, src_runs) ==
    [i \in 1..Len(runs) |->
        IF i <= Len(src_runs)
        THEN [runs[i] EXCEPT
                 !.size = IF src_runs[i].size = 0 THEN Pt14
                          ELSE src_runs[i].size,
                 !.name = IF src_runs[i].name = "" THEN "Times New Roman"
                          ELSE src_runs[i].name]
        ELSE [runs[i] EXCEPT !.size = Pt14, !.name = "Times New Roman"]]

\* the five paragraph_format assignments and the font loop applied to
\* inserted_p from src_p
apply_source_format(inserted_p, src_p) ==
    LET p1 == set_line_spacing(inserted_p, line_spacing_or_default(src_p))
        p2 == set_space_before(p1, spacing_of(src_p).before)
        p3 == set_space_after(p2, spacing_of(src_p).after)
        p4 == [p3 EXCEPT !.pPr = TRUE,
                         !.ind = [left |-> src_p.ind.left,
                                  first |-> src_p.ind.first]]
    IN  [p4 EXCEPT !.runs = copy_fonts(p4.runs, src_p.runs)]

\* for src_p in reversed(source_paragraphs): insert the copy at the body
\* index, then take inserted_p = doc.paragraphs[index] (index counts body
\* children, doc.paragraphs counts paragraphs only) and format it; an index
\* past the last paragraph raises IndexError
RECURSIVE insert_formatted(_, _, _)
insert_formatted(body, index, srcs) ==
    IF srcs = <<>> THEN [raised |-> FALSE, body |-> body]
    ELSE LET src_p == srcs[Len(srcs)]
             b1 == parent_insert(body, index, src_p)
             pos == para_positions(b1, 1)
         IN  IF index + 1 > Len(pos) THEN [raised |-> TRUE, body |-> b1]
             ELSE insert_formatted(
                      [b1 EXCEPT ![pos[index + 1]] =
                          apply_source_format(b1[pos[index + 1]], src_p)],
                      index, SubSeq(srcs, 1, Len(srcs) - 1))

\* The loop of CanCuPhapLyProcessor / MucDichProcessor.replace_placeholder.
splice_formatted(body, placeholder, srcs) ==
    LET k == first_match(body, placeholder)
    IN  IF k = 0 THEN [found |-> FALSE, raised |-> FALSE, body |-> body]
        ELSE LET index == para_positions(body, 1)[k] - 1
                 r == insert_formatted(parent_remove(body, index), index, srcs)
             IN  [found |-> TRUE, raised |-> r.raised, body |-> r.body]

\* ---------------------------------------- run-level replacement (processor)
NoRuns ==
    [start_run_idx |-> -1, end_run_idx |-> -1,
     start_char_in_run |-> 0, end_char_in_run |-> 0]

\* the loop over paragraph.runs that finds the runs holding the first and
\* the last character of the placeholder; run_idx is 0-based
RECURSIVE locate_runs(_, _, _, _, _, _)
locate_runs(runs, run_idx, char_count, placeholder_start, placeholder_end, st) ==
    IF run_idx >= Len(runs) THEN st
    ELSE LET run_len == Len(runs[run_idx + 1].text)
             st1 == IF /\ st.start_run_idx = -1
                       /\ char_count <= placeholder_start
                       /\ placeholder_start < char_count + run_len
                    THEN [st EXCEPT !.start_run_idx = run_idx,
                                    !.start_char_in_run =
                                        placeholder_start - char_count]
                    ELSE st
         IN  IF char_count < placeholder_end
                /\ placeholder_end <= char_count + run_len
             THEN [st1 EXCEPT !.end_run_idx = run_idx,
                              !.end_char_in_run = placeholder_end - char_count]
             ELSE locate_runs(runs, run_idx + 1, char_count + run_len,
                              placeholder_start, placeholder_end, st1)

\* a rewrite that leaves the runs between the first and the last as they are
rewrite_runs_keep_middle(runs, st, content) ==
    [i \in 1..Len(runs) |->
        LET t == runs[i].text
        IN  IF i - 1 = st.start_run_idx /\ i - 1 = st.end_run_idx
            THEN [runs[i] EXCEPT !.text =
                     SubSeq(t, 1, st.start_char_in_run) \o content
                     \o SubSeq(t, st.end_char_in_run + 1, Len(t))]
            ELSE IF i - 1 = st.start_run_idx
            THEN [runs[i] EXCEPT !.text = SubSeq(t, 1, st.start_char_in_run)]
            ELSE IF i - 1 = st.end_run_idx
            THEN [runs[i] EXCEPT !.text =
                     content \o SubSeq(t, st.end_char_in_run + 1, Len(t))]
            ELSE runs[i]]

\* Case 1 (single run) and Case 2 (several runs) of the rewrite
rewrite_runs(runs, st, content) ==
    [i \in 1..Len(runs) |->
        LET t == runs[i].text
        IN  IF st.start_run_idx = st.end_run_idx
            THEN IF i - 1 = st.start_run_idx
                 THEN [runs[i] EXCEPT !.text =
                          SubSeq(t, 1, st.start_char_in_run) \o content
                          \o SubSeq(t, st.end_char_in_run + 1, Len(t))]
                 ELSE runs[i]
            ELSE IF i - 1 = st.start_run_idx
                 THEN [runs[i] EXCEPT !.text =
                          SubSeq(t, 1, st.start_char_in_run)]
                 ELSE IF i - 1 = st.end_run_idx
                 THEN [runs[i] EXCEPT !.text =
                          content \o SubSeq(t, st.end_char_in_run + 1, Len(t))]
                 ELSE IF st.start_run_idx < i - 1 /\ i - 1 < st.end_run_idx
                 THEN [runs[i] EXCEPT !.text = <<>>]
                 ELSE runs[i]]

\* the body-paragraph loop: the first paragraph whose placeholder is located
\* in its runs is rewritten and the loop breaks; k is the paragraph's rank
RECURSIVE replace_in_paragraphs(_, _, _, _)
replace_in_paragraphs(body, placeholder, content, k) ==
    LET pos == para_positions(body, 1)
    IN  IF k > Len(pos) THEN [replaced |-> FALSE, body |-> body]
        ELSE LET p == body[pos[k]]
                 full_text == text(p)
             IN  IF ~Contains(full_text, placeholder)
                 THEN replace_in_paragraphs(body, placeholder, content, k + 1)
                 ELSE LET placeholder_start == find(full_text, placeholder)
                          st == locate_runs(p.runs, 0, 0, placeholder_start,
                                    placeholder_start + Len(placeholder),
                                    NoRuns)
                      IN  IF st.start_run_idx >= 0 /\ st.end_run_idx >= 0
                          THEN [replaced |-> TRUE,
                                body |-> [body EXCEPT ![pos[k]].runs =
                                    rewrite_runs(p.runs, st, content)]]
                          ELSE replace_in_paragraphs(body, placeholder,
                                                     content, k + 1)

\* "Also check tables": in a cell paragraph whose text contains the
\* placeholder, the first run that holds it whole has every occurrence
\* replaced
first_run_with(runs, placeholder) ==
    LET hits == {i \in 1..Len(runs) : Contains(runs[i].text, placeholder)}
    IN  IF hits = {} THEN 0 ELSE CHOOSE i \in hits : \A j \in hits : i <= j

replace_in_cell_paragraph(cp, placeholder, content) ==
    LET i == first_run_with(cp.runs, placeholder)
    IN  IF Contains(text(cp), placeholder) /\ i > 0
        THEN [cp EXCEPT !.runs[i].text =
                 str_replace(cp.runs[i].text, placeholder, content)]
        ELSE cp

replace_in_table(t, placeholder, content) ==
    [t EXCEPT !.rows = [r \in 1..Len(t.rows) |->
        [t.rows[r] EXCEPT !.cells = [c \in 1..Len(t.rows[r].cells) |->
            [q \in 1..Len(t.rows[r].cells[c]) |->
                replace_in_cell_paragraph(t.rows[r].cells[c][q],
                                          placeholder, content)]]]]]

replace_in_tables(body, placeholder, content) ==
    [i \in 1..Len(body) |->
        IF IsTable(body[i]) THEN replace_in_table(body[i], placeholder, content)
        ELSE body[i]]

\* The in-memory effect of replace_placeholder_in_docx: the paragraph loop,
\* then the table loop; replaced is set by either.
replace_text(body, placeholder, content) ==
    LET r == replace_in_paragraphs(body, placeholder, content, 1)
        b2 == replace_in_tables(r.body, placeholder, content)
    IN  [replaced |-> r.replaced \/ b2 # r.body, body |-> b2]

\* ------------------------------------------------------------ operations
\* A file is [exists, body]; Document(path) of a missing file raises.
Absent == [exists |-> FALSE, body |-> <<>>]
File(body) == [exists |-> TRUE, body |-> body]

\* parent.insert(index, element._element) without a copy: lxml moves the
\* element out of the tree it was in
after_move(source_body, elements) ==
    LET Stays(b) == \A i \in 1..Len(elements) : elements[i].id # b.id
    IN  SelectSeq(source_body, Stays)

\* new = deepcopy(element._element): the copy goes to the target, the element
\* stays in the source tree as it was
after_deepcopy(source_body, elements) == source_body

\* the body of source_doc after the call: untouched when the placeholder was
\* not found, otherwise what the insert loop leaves of it
source_after(source_body, found, elements) ==
    IF found THEN after_deepcopy(source_body, elements) ELSE source_body

\* replace_placeholder_only(template_path, content_path, output_path,
\* placeholder) of CombinedProcessor and of docx_processor, for
\* template_path # output_path: copy the template over the output, load,
\* splice with the enhancements, save only when the placeholder was found;
\* any exception (here: a missing content file) returns False
replace_placeholder_only(template, content, placeholder) ==
    IF ~content.exists
    THEN [ret |-> "False", doc |-> template.body,
          output |-> File(template.body), source |-> <<>>]
    ELSE LET result(r) ==
                 [ret |-> IF r.found THEN "True" ELSE "False",
                  doc |-> r.body,
                  source |-> source_after(content.body, r.found,
                                          all_elements(content.body)),
                  output |-> File(IF r.found THEN r.body ELSE template.body)]
         IN  result(splice_elements(template.body, placeholder,
                                    all_elements(content.body), TRUE))

\* replace_placeholder(doc, placeholder_tag) of PhamViCungCapProcessor and of
\* the CacBuoc processors: in memory only, no return value; a missing
\* processed/<tag>/output.docx raises FileNotFoundError
replace_placeholder(body, content, placeholder) ==
    IF ~content.exists THEN [ret |-> "raise", doc |-> body, source |-> <<>>]
    ELSE LET result(r) ==
                 [ret |-> "None", doc |-> r.body,
                  source |-> source_after(content.body, r.found,
                                          all_elements(content.body))]
         IN  result(splice_elements(body, placeholder,
                                    all_elements(content.body), FALSE))

\* replace_placeholder(doc, placeholder_tag) of CanCuPhapLyProcessor and of
\* MucDichProcessor: paragraphs only, source formatting re-applied
replace_placeholder_formatted(body, content, placeholder) ==
    IF ~content.exists THEN [ret |-> "raise", doc |-> body, source |-> <<>>]
    ELSE LET result(r) ==
                 [ret |-> IF r.raised THEN "raise" ELSE "None", doc |-> r.body,
                  source |-> source_after(content.body, r.found,
                                          source_paragraphs(content.body))]
         IN  result(splice_formatted(body, placeholder,
                                     source_paragraphs(content.body)))

\* VietnameseProcurementProcessor.replace_placeholder_in_docx: load the output
\* file, replace, save whether or not anything was replaced
replace_placeholder_in_docx(output, placeholder, content) ==
    IF ~output.exists
    THEN [ret |-> "False", doc |-> <<>>, output |-> output, source |-> <<>>]
    ELSE LET result(r) ==
                 [ret |-> IF r.replaced THEN "True" ELSE "False",
                  doc |-> r.body, output |-> File(r.body), source |-> <<>>]
         IN  result(replace_text(output.body, placeholder, content))

\* smart_replace of test_complete_workflow, template_path = output_path:
\* works on the output file, no enhancement, saves only when found
smart_replace(output, content, placeholder) ==
    IF ~output.exists \/ ~content.exists
    THEN [ret |-> "raise", doc |-> <<>>, output |-> output, source |-> <<>>]
    ELSE LET result(r) ==
                 [ret |-> IF r.found THEN "True" ELSE "False",
                  doc |-> r.body,
                  source |-> source_after(content.body, r.found,
                                          all_elements(content.body)),
                  output |-> IF r.found THEN File(r.body) ELSE output]
         IN  result(splice_elements(output.body, placeholder,
                                    all_elements(content.body), FALSE))

\* smart_replace_final of process_all_placeholders, template_path =
\* output_path: no found flag, always saves and returns True
smart_replace_final(output, content, placeholder) ==
    IF ~output.exists \/ ~content.exists
    THEN [ret |-> "raise", doc |-> <<>>, output |-> output, source |-> <<>>]
    ELSE LET result(r) ==
                 [ret |-> "True", doc |-> r.body, output |-> File(r.body),
                  source |-> source_after(content.body, r.found,
                                          all_elements(content.body))]
         IN  result(splice_elements(output.body, placeholder,
                                    all_elements(content.body), FALSE))

\* ------------------------------------------------ inputs of the splice model
Run(t, size, name) == [text |-> t, size |-> size, name |-> name]

\* target blocks; the id is the block's position in the body before the call
PlainParagraph(i) ==
    [kind |-> "p", id |-> i, pPr |-> TRUE,
     spacing |-> <<[before |-> 0, after |-> 160, line |-> 240,
                    lineRule |-> "exact"]>>,
     ind |-> [left |-> 0, first |-> 0],
     runs |-> <<Run(<<"a", "b">>, 12, "Arial")>>]

\* "a{b}c" with the placeholder split over two runs
MarkerParagraph(i, name) ==
    [kind |-> "p", id |-> i, pPr |-> FALSE, spacing |-> <<>>,
     ind |-> [left |-> 0, first |-> 0],
     runs |-> <<Run(<<"a", "{">>, 12, "Arial"),
                Run(<<name, "}", "c">>, 0, "")>>]

CellParagraph(t) == [runs |-> <<Run(t, 0, "")>>]

PlainTable(i) ==
    [kind |-> "t", id |-> i,
     rows |-> <<[trPr |-> FALSE, trHeight |-> <<>>, nested |-> <<>>,
                 cells |-> <<<<CellParagraph(<<"x">>)>>>>]>>]

\* a table with the placeholder in a cell
MarkerTable(i, name) ==
    [kind |-> "t", id |-> i,
     rows |-> <<[trPr |-> FALSE, trHeight |-> <<>>, nested |-> <<>>,
                 cells |-> <<<<CellParagraph(<<"{", name, "}", "y">>)>>>>]>>]

TargetBlock(shape, i, name) ==
    CASE shape = "plain" -> PlainParagraph(i)
      [] shape = "marker" -> MarkerParagraph(i, name)
      [] shape = "table" -> PlainTable(i)
      [] OTHER -> MarkerTable(i, name)

TargetShapes == {"plain", "marker", "table", "markertable"}

\* content blocks, ids from 11; the paragraph as markdown_to_docx leaves it
ContentParagraph(i) ==
    [kind |-> "p", id |-> 10 + i, pPr |-> TRUE,
     spacing |-> <<[before |-> 0, after |-> Pt6, line |-> 0,
                    lineRule |-> "none"]>>,
     ind |-> [left |-> 0, first |-> HalfInch],
     runs |-> <<Run(<<"P">>, 0, "")>>]

BlankParagraph(i) ==
    [kind |-> "p", id |-> 10 + i, pPr |-> FALSE, spacing |-> <<>>,
     ind |-> [left |-> 0, first |-> 0],
     runs |-> <<Run(<<" ">>, 0, "")>>]

ContentTable(i) ==
    [kind |-> "t", id |-> 10 + i,
     rows |-> <<[trPr |-> TRUE,
                 trHeight |-> <<[val |-> 300, hRule |-> "exact"]>>,
                 nested |-> <<>>,
                 cells |-> <<<<CellParagraph(<<"1">>)>>>>],
                [trPr |-> FALSE, trHeight |-> <<>>, nested |-> <<>>,
                 cells |-> <<<<CellParagraph(<<"a">>)>>>>]>>]

ContentBlock(shape, i) ==
    CASE shape = "para" -> ContentParagraph(i)
      [] shape = "blank" -> BlankParagraph(i)
      [] OTHER -> ContentTable(i)

ContentShapes == {"para", "blank", "table"}

Targets ==
    UNION {{[i \in 1..n |-> TargetBlock(f[i], i, cac_buoc_thuc_hien)] :
               f \in [1..n -> TargetShapes]} : n \in 1..MaxTarget}

Contents ==
    UNION {{[i \in 1..n |-> ContentBlock(f[i], i)] :
               f \in [1..n -> ContentShapes]} : n \in 0..MaxSource}

\* what an earlier run left at the output path
StaleOutput == <<PlainParagraph(9)>>

\* the text handed to replace_placeholder_in_docx
Replacements == {<<"N">>, <<>>}

\* ------------------------------------------------------ upstream producers
\* extract_text_from_pdf / extract_pdf_text_pymupdf: the text, or None after
\* an exception
PdfOutcomes == {"text", "none"}

\* the chat completion call: an answer, or an exception
LlmOutcomes == {"ok", "raise"}

\* ask_openai_for_ten_goi_thau: the answer, or the sentinel after an exception
ask_openai_for_ten_goi_thau(llm) ==
    IF llm = "raise" THEN KHONG_TIM_THAY ELSE <<"N">>

\* extract_table_from_bmmt: csv text (possibly empty), None after an exception
CsvOutcomes == {"csv", "empty", "none"}

\* create_docx_table: processed/pham_vi_cung_cap/output.docx, a fresh document
\* holding the one table
create_docx_table == File(<<ContentTable(10)>>)

\* markdown_to_docx: processed/<tag>/output.docx, one paragraph per non-empty
\* line of the markdown, indented and spaced
markdown_to_docx(lines, base) ==
    File([i \in 1..lines |-> ContentParagraph(base + i)])

\* detect_steps_with_openai: 21 or 23, None for UNKNOWN, for any other answer
\* and after an exception
StepAnswers == {"21", "23", "UNKNOWN", "22", "raise"}

\* a mutilated detector: whatever is not UNKNOWN or an exception counts as 23
detect_steps_loosely(answer) ==
    IF answer = "21" THEN "21"
    ELSE IF answer \in {"UNKNOWN", "raise"} THEN "None" ELSE "23"

detect_steps_with_openai(answer) ==
    IF answer \in {"21", "23"} THEN answer ELSE "None"

\* the pre-made 21_BUOC.docx and 23_BUOC.docx
BUOC_21 == File(<<ContentParagraph(41), ContentTable(42)>>)
BUOC_23 == File(<<ContentTable(43), ContentParagraph(44)>>)

\* -------------------------------------------------------- processor steps
\* What one step hands back: result is "True", "False" or "raise" (msg the
\* exception text), output the file at the output path afterwards, content
\* the processed/<tag>/output.docx afterwards, input the body the step loaded
\* to replace in, found whether that body held the placeholder, copied whether
\* the template was copied over the output, upstream whether a producer
\* failed.
Outcome(result, msg, output, content, input, found, copied, upstream) ==
    [result |-> result, msg |-> msg, output |-> output, content |-> content,
     input |-> input, found |-> found, copied |-> copied,
     upstream |-> upstream]

OPENAI_API_KEY_not_found == <<"OPENAI_API_KEY not found in .env file!">>
list_index_out_of_range == <<"list index out of range">>

\* __init__ of every processor raises ValueError without the key
construct(api_key, output, content, o) ==
    IF api_key THEN o
    ELSE Outcome("raise", OPENAI_API_KEY_not_found, output, content, <<>>,
                 FALSE, FALSE, FALSE)

\* VietnameseProcurementProcessor.test_ten_goi_thau_extraction
test_ten_goi_thau_extraction(template, output, pdf, llm) ==
    IF pdf = "none"
    THEN Outcome("False", <<>>, output, Absent, <<>>, FALSE, FALSE, TRUE)
    ELSE LET ten_goi_thau_content == ask_openai_for_ten_goi_thau(llm)
             copy == File(template.body)
             r == replace_placeholder_in_docx(copy, Placeholder(ten_goi_thau),
                                              ten_goi_thau_content)
         IN  Outcome(r.ret, <<>>, r.output, Absent, copy.body,
                     r.ret = "True", TRUE, llm = "raise")

\* copy_template_to_output, and smart_copy when template_file = output_file
\* (same): the file the step then loads
copy_template_to_output(template, output, same) ==
    IF same THEN output ELSE File(template.body)

\* PhamViCungCapProcessor.test_pham_vi_cung_cap_simple
test_pham_vi_cung_cap_simple(template, output, same, content, pdf, csv) ==
    IF pdf = "none" \/ csv # "csv"
    THEN Outcome("False", <<>>, output, content, <<>>, FALSE, FALSE, TRUE)
    ELSE LET made == create_docx_table
             start == copy_template_to_output(template, output, same)
             placeholder == Placeholder(pham_vi_cung_cap)
             r == replace_placeholder(start.body, made, placeholder)
         IN  Outcome("True", <<>>, File(r.doc), made, start.body,
                     first_match(start.body, placeholder) > 0, ~same, FALSE)

\* test_can_cu_phap_ly_full_process and test_muc_dich_cong_viec_full_process
\* are the same method up to the tag; an IndexError of replace_placeholder
\* leaves the method before doc.save
full_process(tag, base, template, output, same, content, pdf, llm, lines) ==
    IF pdf = "none"
    THEN Outcome("False", <<>>, output, content, <<>>, FALSE, FALSE, TRUE)
    ELSE IF llm = "raise"
    THEN Outcome("False", <<>>, output, content, <<>>, FALSE, FALSE, TRUE)
    ELSE LET made == markdown_to_docx(lines, base)
             start == copy_template_to_output(template, output, same)
             placeholder == Placeholder(tag)
             r == replace_placeholder_formatted(start.body, made, placeholder)
             found == first_match(start.body, placeholder) > 0
         IN  IF r.ret = "raise"
             THEN Outcome("raise", list_index_out_of_range, start, made,
                          start.body, found, ~same, FALSE)
             ELSE Outcome("True", <<>>, File(r.doc), made, start.body,
                          found, ~same, FALSE)

test_can_cu_phap_ly_full_process(template, output, same, content, pdf, llm, lines) ==
    full_process(can_cu_phap_ly, 20, template, output, same, content, pdf,
                 llm, lines)

test_muc_dich_cong_viec_full_process(template, output, same, content, pdf, llm, lines) ==
    full_process(muc_dich_cong_viec, 30, template, output, same, content,
                 pdf, llm, lines)

\* CombinedProcessor.process_complete_workflow; replace names what
\* replace_placeholder_only is bound to: "smart_replace",
\* "smart_replace_final" (both with template_file = output_file) or the
\* method of the class
process_complete_workflow(template, output, replace, chuong_v, pdf, answer) ==
    IF ~template.exists \/ ~chuong_v
    THEN Outcome("False", <<>>, output, Absent, <<>>, FALSE, FALSE, FALSE)
    ELSE IF pdf = "none" \/ detect_steps_with_openai(answer) = "None"
    THEN Outcome("False", <<>>, output, Absent, <<>>, FALSE, FALSE, TRUE)
    ELSE LET content_file_chosen ==
                 IF detect_steps_with_openai(answer) = "21" THEN BUOC_21
                 ELSE BUOC_23
             placeholder == Placeholder(cac_buoc_thuc_hien)
             same == replace \in {"smart_replace", "smart_replace_final"}
             start == IF same THEN output ELSE template
             r == CASE replace = "smart_replace" ->
                           smart_replace(output, content_file_chosen,
                                         placeholder)
                    [] replace = "smart_replace_final" ->
                           smart_replace_final(output, content_file_chosen,
                                               placeholder)
                    [] OTHER ->
                           replace_placeholder_only(template,
                                                    content_file_chosen,
                                                    placeholder)
         IN  Outcome(r.ret, <<>>, r.output, Absent, start.body,
                     first_match(start.body, placeholder) > 0, ~same, FALSE)

\* ------------------------------------------------------------------ state
VARIABLES
    template_file,   \* the template (target) document on disk
    content_file,    \* the content document on disk
    output_file,     \* the file at the output path
    output_before,   \* the file at the output path before the call
    target_before,   \* the body the call searched, as it was before the call
    doc,             \* the in-memory target after the call
    ret,             \* what the call returned: "True" "False" "None" "raise"
    op,              \* the operation that ran, "idle" before
    orchestrator,    \* the orchestrator that runs, "none" for a single call
    api_key,         \* whether OPENAI_API_KEY is set
    chuong_v_in_cwd, \* whether CHUONG_V.pdf lies in the working directory
    pc,              \* the step the orchestrator is about to run
    processed,       \* processed/<tag>/output.docx, per tag
    backups,         \* the step backup files of the two-phase orchestrator
    error,           \* the text of the exception the orchestrator reported
    history,         \* the steps run so far with their results
    last,            \* the step that ran last: what it loaded, found, returned
    substituted,     \* the placeholders replaced in the file at the output path
    required_files,  \* whether the files check_required_files looks for exist
    exit_code,       \* the exit code of the command-line run, -1 before
    api_result,      \* the file api_result.docx in the system temp directory
    step_text,       \* the label handed to is_sub_step
    sub_step,        \* what is_sub_step returned, "idle" before
    parsed_rows,     \* the rows create_formatted_docx parsed from the CSV lines
    step_doc,        \* the document create_formatted_docx saved
    source_doc,      \* the body of the loaded content Document after the call
    requests,        \* the requests to /api/process-document, per request
    args,            \* the arguments of the function called on its own
    returned,        \* what that function returned, name "idle" before
    cwd              \* the working directory of the process

splice_vars ==
    <<content_file, output_before, target_before, doc, ret, op, source_doc>>

pipeline_vars ==
    <<orchestrator, api_key, chuong_v_in_cwd, pc, processed, backups, error,
      history, last, substituted, required_files, exit_code, api_result>>

table_vars ==
    <<step_text, sub_step, parsed_rows, step_doc>>

vars ==
    <<template_file, content_file, output_file, output_before, target_before,
      doc, ret, op, orchestrator, api_key, chuong_v_in_cwd, pc, processed,
      backups, error, history, last, substituted, required_files, exit_code,
      api_result, step_text, sub_step, parsed_rows, step_doc, source_doc,
      requests, args, returned, cwd>>

unit_vars ==
    <<args, returned, cwd>>

\* no function is called on its own
NoCall == [name |-> "idle"]

\* no call of the step-table builder is under way
TableIdle ==
    /\ step_text = <<>>
    /\ sub_step = "idle"
    /\ parsed_rows = <<>>
    /\ step_doc = [exists |-> FALSE, paragraphs |-> 0, table |-> <<>>]

ProcessedTags == {pham_vi_cung_cap, can_cu_phap_ly, muc_dich_cong_viec}
BackupNames ==
    {"step1_ten_goi_thau", "step2_pham_vi", "step3_can_cu", "step4_muc_dich"}

NoStep ==
    [tag |-> "", input |-> <<>>, before |-> Absent, after |-> Absent,
     found |-> FALSE, upstream |-> FALSE, result |-> "idle"]

Init ==
    /\ template_file \in {File(b) : b \in Targets}
    /\ content_file \in {File(b) : b \in Contents} \cup {Absent}
    /\ output_file \in {Absent, File(StaleOutput), template_file}
    /\ output_before = output_file
    /\ target_before = <<>>
    /\ doc = <<>>
    /\ ret = "idle"
    /\ op = "idle"
    /\ orchestrator = "none"
    /\ api_key = TRUE
    /\ chuong_v_in_cwd = FALSE
    /\ pc = "idle"
    /\ processed = [t \in ProcessedTags |-> Absent]
    /\ backups = [n \in BackupNames |-> Absent]
    /\ error = <<>>
    /\ history = <<>>
    /\ last = NoStep
    /\ substituted = {}
    /\ required_files = TRUE
    /\ exit_code = -1
    /\ api_result = Absent
    /\ source_doc = <<>>
    /\ requests = <<>>
    /\ args = NoCall
    /\ returned = NoCall
    /\ cwd = "app"
    /\ TableIdle

PH == Placeholder(cac_buoc_thuc_hien)

\* a call that works on template -> output
OnTemplate(name, r) ==
    /\ op = "idle"
    /\ op' = name
    /\ target_before' = template_file.body
    /\ doc' = r.doc
    /\ ret' = r.ret
    /\ source_doc' = r.source
    /\ output_file' = r.output
    /\ UNCHANGED <<template_file, content_file, output_before>>
    /\ UNCHANGED <<pipeline_vars, table_vars, requests, unit_vars>>

\* a call that works on the document the caller loaded, here the template
InMemory(name, r) ==
    /\ op = "idle"
    /\ op' = name
    /\ target_before' = template_file.body
    /\ doc' = r.doc
    /\ ret' = r.ret
    /\ source_doc' = r.source
    /\ UNCHANGED <<template_file, content_file, output_file, output_before>>
    /\ UNCHANGED <<pipeline_vars, table_vars, requests, unit_vars>>

\* a call that works on the output file in place
OnOutput(name, r) ==
    /\ op = "idle"
    /\ op' = name
    /\ target_before' = output_file.body
    /\ doc' = r.doc
    /\ ret' = r.ret
    /\ source_doc' = r.source
    /\ output_file' = r.output
    /\ UNCHANGED <<template_file, content_file, output_before>>
    /\ UNCHANGED <<pipeline_vars, table_vars, requests, unit_vars>>

CombinedProcessor_replace_placeholder_only ==
    OnTemplate("CombinedProcessor.replace_placeholder_only",
               replace_placeholder_only(template_file, content_file, PH))

docx_processor_replace_placeholder_only ==
    OnTemplate("docx_processor.replace_placeholder_only",
               replace_placeholder_only(template_file, content_file, PH))

PhamViCungCapProcessor_replace_placeholder ==
    InMemory("PhamViCungCapProcessor.replace_placeholder",
             replace_placeholder(template_file.body, content_file, PH))

CacBuocThucHienProcessor_replace_placeholder ==
    InMemory("CacBuocThucHienProcessor.replace_placeholder",
             replace_placeholder(template_file.body, content_file, PH))

CanCuPhapLyProcessor_replace_placeholder ==
    InMemory("CanCuPhapLyProcessor.replace_placeholder",
             replace_placeholder_formatted(template_file.body, content_file, PH))

MucDichProcessor_replace_placeholder ==
    InMemory("MucDichProcessor.replace_placeholder",
             replace_placeholder_formatted(template_file.body, content_file, PH))

VietnameseProcurementProcessor_replace_placeholder_in_docx ==
    \E content \in Replacements :
        OnOutput("VietnameseProcurementProcessor.replace_placeholder_in_docx",
                 replace_placeholder_in_docx(output_file, PH, content))

\* smart_replace / smart_replace_final with template_path = output_path; with
\* different paths both hand over to replace_placeholder_only
LocalWalkingSkeletonTest_smart_replace ==
    \/ OnOutput("smart_replace", smart_replace(output_file, content_file, PH))
    \/ OnTemplate("smart_replace.original",
                  replace_placeholder_only(template_file, content_file, PH))

WalkingSkeletonProcessor_smart_replace_final ==
    \/ OnOutput("smart_replace_final",
                smart_replace_final(output_file, content_file, PH))
    \/ OnTemplate("smart_replace_final.original",
                  replace_placeholder_only(template_file, content_file, PH))

Next ==
    \/ CombinedProcessor_replace_placeholder_only
    \/ docx_processor_replace_placeholder_only
    \/ PhamViCungCapProcessor_replace_placeholder
    \/ CacBuocThucHienProcessor_replace_placeholder
    \/ CanCuPhapLyProcessor_replace_placeholder
    \/ MucDichProcessor_replace_placeholder
    \/ VietnameseProcurementProcessor_replace_placeholder_in_docx
    \/ LocalWalkingSkeletonTest_smart_replace
    \/ WalkingSkeletonProcessor_smart_replace_final

Spec == Init /\ [][Next]_vars

\* ---------------------------------------------------------- orchestrators
\* test_complete_workflow of test_walking_skeleton_fixed.py,
\* process_all_placeholders of walking_skeleton_api_clean.py and
\* process_muc_do_hieu_biet_template of walking_skeleton_api.py
Local == "test_complete_workflow"
Clean == "process_all_placeholders"
Api == "process_muc_do_hieu_biet_template"

\* the placeholders in the order the orchestrators take them
Order ==
    <<ten_goi_thau, pham_vi_cung_cap, can_cu_phap_ly, muc_dich_cong_viec,
      cac_buoc_thuc_hien>>

AllTags == {Order[i] : i \in 1..Len(Order)}

\* 02_MUC_DO_HIEU_BIET_template.docx: one paragraph per placeholder of
\* present, in that order, and a closing paragraph when tail
TemplateBody(present, tail) ==
    LET full == [i \in 1..Len(Order) |-> MarkerParagraph(i, Order[i])]
                    \o <<PlainParagraph(Len(Order) + 1)>>
        Keep(b) == IF b.id > Len(Order) THEN tail ELSE Order[b.id] \in present
    IN  SelectSeq(full, Keep)

\* the templates explored lack at most MaxMissing of the five placeholders
PipelineTemplates ==
    {TemplateBody(present, tail) :
        present \in {S \in SUBSET AllTags :
                        Cardinality(AllTags \ S) <= MaxMissing},
        tail \in BOOLEAN}

\* what an earlier run left in processed/<tag>/output.docx
StaleProcessed == File(<<ContentParagraph(50)>>)

PipelineInit ==
    /\ orchestrator \in {Local, Clean, Api}
    /\ template_file \in {File(b) : b \in PipelineTemplates}
    /\ api_key \in BOOLEAN
    /\ chuong_v_in_cwd \in IF orchestrator = Local THEN BOOLEAN ELSE {FALSE}
    /\ required_files \in IF orchestrator = Local THEN BOOLEAN ELSE {TRUE}
    /\ exit_code = -1
    /\ api_result = Absent
    /\ source_doc = <<>>
    /\ requests = <<>>
    /\ args = NoCall
    /\ returned = NoCall
    /\ cwd = "app"
    /\ TableIdle
    /\ pc = IF orchestrator = Local THEN "main" ELSE "step1"
    /\ \E leftover \in IF orchestrator = Local THEN BOOLEAN ELSE {FALSE} :
          /\ output_file = IF leftover THEN File(StaleOutput) ELSE Absent
          /\ processed = [t \in ProcessedTags |->
                             IF leftover THEN StaleProcessed ELSE Absent]
          /\ backups = [n \in BackupNames |->
                           IF leftover THEN File(StaleOutput) ELSE Absent]
    /\ error = <<>>
    /\ history = <<>>
    /\ last = NoStep
    /\ substituted = {}
    /\ content_file = Absent
    /\ output_before = output_file
    /\ target_before = <<>>
    /\ doc = <<>>
    /\ ret = "idle"
    /\ op = "idle"

\* raise Exception("... FAILED: {{tag}}") and its wordings in the other two
\* orchestrators: the text holds the placeholder
StepFailed(tag) == <<"Failed", " ">> \o Placeholder(tag)

\* steps 2 to 4 of the one-pass orchestrators set template_file = output_file
SameFile == orchestrator \in {Local, Clean}

\* What the orchestrator does once a step handed back o: if not success,
\* raise; an exception of the step itself arrives in the same except clause
\* with its own text. The two-phase orchestrator copies the output to the
\* step's backup file after a success.
Conclude(tag, next, backup, o) ==
    /\ output_file' = o.output
    /\ processed' = IF tag \in ProcessedTags
                    THEN [processed EXCEPT ![tag] = o.content]
                    ELSE processed
    /\ backups' = IF orchestrator = Api /\ o.result = "True"
                     /\ backup \in BackupNames
                  THEN [backups EXCEPT ![backup] = o.output]
                  ELSE backups
    /\ history' = Append(history, [tag |-> tag, result |-> o.result])
    /\ last' = [tag |-> tag, input |-> o.input, before |-> output_file,
                after |-> o.output, found |-> o.found,
                upstream |-> o.upstream, result |-> o.result]
    /\ substituted' =
           LET kept == IF o.copied THEN {} ELSE substituted
           IN  IF o.result = "True" /\ o.found THEN kept \cup {tag} ELSE kept
    /\ pc' = IF o.result = "True" THEN next ELSE "failed"
    /\ error' = IF o.result = "True" THEN <<>>
                ELSE IF o.result = "raise" THEN o.msg
                ELSE StepFailed(tag)
    /\ UNCHANGED <<template_file, orchestrator, api_key, chuong_v_in_cwd,
                   required_files, exit_code, api_result>>
    /\ UNCHANGED <<splice_vars, table_vars, requests, unit_vars>>

\* main without clean_previous_outputs: the check of the required files only
main_check_only ==
    /\ pc = "main"
    /\ orchestrator = Local
    /\ pc' = IF required_files THEN "step1" ELSE "exited"
    /\ exit_code' = IF required_files THEN exit_code ELSE 1
    /\ UNCHANGED <<template_file, output_file, orchestrator, api_key,
                   chuong_v_in_cwd, required_files, processed, backups,
                   error, history, last, substituted, api_result>>
    /\ UNCHANGED <<splice_vars, table_vars, requests, unit_vars>>

\* main of test_walking_skeleton_fixed.py up to the workflow: without the
\* required files it returns False and the script exits with 1; otherwise
\* clean_previous_outputs removes the output, processed/ and the backups
main_check_and_clean ==
    /\ pc = "main"
    /\ orchestrator = Local
    /\ IF required_files
       THEN /\ output_file' = Absent
            /\ processed' = [t \in ProcessedTags |-> Absent]
            /\ backups' = [n \in BackupNames |-> Absent]
            /\ pc' = "step1"
            /\ exit_code' = exit_code
       ELSE /\ pc' = "exited"
            /\ exit_code' = 1
            /\ UNCHANGED <<output_file, processed, backups>>
    /\ UNCHANGED <<template_file, orchestrator, api_key, chuong_v_in_cwd,
                   required_files, error, history, last, substituted,
                   api_result>>
    /\ UNCHANGED <<splice_vars, table_vars, requests, unit_vars>>

\* the end of main and of the script: exit(0 if success else 1)
main_exit ==
    /\ pc \in {"done", "failed"}
    /\ orchestrator = Local
    /\ pc' = "exited"
    /\ exit_code' = IF pc = "done" THEN 0 ELSE 1
    /\ UNCHANGED <<template_file, output_file, orchestrator, api_key,
                   chuong_v_in_cwd, required_files, processed, backups,
                   error, history, last, substituted, api_result>>
    /\ UNCHANGED <<splice_vars, table_vars, requests, unit_vars>>

\* The rest of process_document once process_all_placeholders returned or
\* raised: after a success copy the output to api_result.docx in the system
\* temp directory; in both cases cleanup removes the work directory
process_document_finish ==
    /\ pc \in {"done", "failed"}
    /\ orchestrator = Clean
    /\ api_result' = IF pc = "done" THEN output_file ELSE api_result
    /\ output_file' = Absent
    /\ processed' = [t \in ProcessedTags |-> Absent]
    /\ backups' = [n \in BackupNames |-> Absent]
    /\ pc' = "responded"
    /\ UNCHANGED <<template_file, orchestrator, api_key, chuong_v_in_cwd,
                   required_files, error, history, last, substituted,
                   exit_code>>
    /\ UNCHANGED <<splice_vars, table_vars, requests, unit_vars>>

\* The rest of process_walking_skeleton: finally cleanup removes the work
\* directory
process_walking_skeleton_finish ==
    /\ pc \in {"done", "failed"}
    /\ orchestrator = Api
    /\ output_file' = Absent
    /\ processed' = [t \in ProcessedTags |-> Absent]
    /\ backups' = [n \in BackupNames |-> Absent]
    /\ pc' = "responded"
    /\ UNCHANGED <<template_file, orchestrator, api_key, chuong_v_in_cwd,
                   required_files, error, history, last, substituted,
                   exit_code, api_result>>
    /\ UNCHANGED <<splice_vars, table_vars, requests, unit_vars>>

Step1_ten_goi_thau ==
    /\ pc = "step1"
    /\ \E pdf \in PdfOutcomes, llm \in LlmOutcomes :
         Conclude(ten_goi_thau, "step2", "step1_ten_goi_thau",
             construct(api_key, output_file, Absent,
                 test_ten_goi_thau_extraction(template_file, output_file,
                                              pdf, llm)))

Step2_pham_vi_cung_cap ==
    /\ pc = "step2"
    /\ \E pdf \in PdfOutcomes, csv \in CsvOutcomes :
         Conclude(pham_vi_cung_cap, "step3", "step2_pham_vi",
             construct(api_key, output_file, processed[pham_vi_cung_cap],
                 test_pham_vi_cung_cap_simple(template_file, output_file,
                     SameFile, processed[pham_vi_cung_cap], pdf, csv)))

Step3_can_cu_phap_ly ==
    /\ pc = "step3"
    /\ \E pdf \in PdfOutcomes, llm \in LlmOutcomes, lines \in 0..MaxLines :
         Conclude(can_cu_phap_ly, "step4", "step3_can_cu",
             construct(api_key, output_file, processed[can_cu_phap_ly],
                 test_can_cu_phap_ly_full_process(template_file, output_file,
                     SameFile, processed[can_cu_phap_ly], pdf, llm, lines)))

Step4_muc_dich_cong_viec ==
    /\ pc = "step4"
    /\ \E pdf \in PdfOutcomes, llm \in LlmOutcomes, lines \in 0..MaxLines :
         Conclude(muc_dich_cong_viec,
             IF orchestrator = Api THEN "phase2" ELSE "step5",
             "step4_muc_dich",
             construct(api_key, output_file, processed[muc_dich_cong_viec],
                 test_muc_dich_cong_viec_full_process(template_file,
                     output_file, SameFile, processed[muc_dich_cong_viec],
                     pdf, llm, lines)))

\* PHASE 2 of process_muc_do_hieu_biet_template: start fresh from the
\* template, ask for ten_goi_thau again, apply the four replacements from the
\* processed documents of phase 1, saving after each
Phase2_final_combination ==
    /\ pc = "phase2"
    /\ orchestrator = Api
    /\ \E llm \in LlmOutcomes :
         LET fresh == File(template_file.body)
             r1 == replace_placeholder_in_docx(fresh,
                       Placeholder(ten_goi_thau),
                       ask_openai_for_ten_goi_thau(llm))
             r2 == replace_placeholder(r1.output.body,
                       processed[pham_vi_cung_cap],
                       Placeholder(pham_vi_cung_cap))
             r3 == replace_placeholder_formatted(r2.doc,
                       processed[can_cu_phap_ly], Placeholder(can_cu_phap_ly))
             r4 == replace_placeholder_formatted(r3.doc,
                       processed[muc_dich_cong_viec],
                       Placeholder(muc_dich_cong_viec))
             raised == r3.ret = "raise" \/ r4.ret = "raise"
             saved == IF r3.ret = "raise" THEN r2.doc
                      ELSE IF r4.ret = "raise" THEN r3.doc ELSE r4.doc
             applied == {Order[i] : i \in
                            {j \in 1..4 : first_match(template_file.body,
                                              Placeholder(Order[j])) > 0
                                          /\ (j = 3 => r3.ret # "raise")
                                          /\ (j = 4 => ~raised)}}
         IN  /\ output_file' = File(saved)
             /\ history' = Append(history,
                    [tag |-> "phase2",
                     result |-> IF raised THEN "raise" ELSE "True"])
             /\ last' = [tag |-> "phase2", input |-> fresh.body,
                         before |-> output_file, after |-> File(saved),
                         found |-> applied # {},
                         upstream |-> llm = "raise",
                         result |-> IF raised THEN "raise" ELSE "True"]
             /\ substituted' = applied
             /\ pc' = IF raised THEN "failed" ELSE "step5"
             /\ error' = IF raised THEN list_index_out_of_range ELSE <<>>
    /\ UNCHANGED <<template_file, orchestrator, api_key, chuong_v_in_cwd,
                   processed, backups, required_files, exit_code, api_result>>
    /\ UNCHANGED <<splice_vars, table_vars, requests, unit_vars>>

Step5_cac_buoc_thuc_hien ==
    /\ pc = "step5"
    /\ \E pdf \in PdfOutcomes, answer \in StepAnswers :
         Conclude(cac_buoc_thuc_hien, "done", "",
             construct(api_key, output_file, Absent,
                 process_complete_workflow(
                     IF orchestrator = Api THEN template_file
                     ELSE output_file,
                     output_file,
                     CASE orchestrator = Local -> "smart_replace"
                       [] orchestrator = Clean -> "smart_replace_final"
                       [] OTHER -> "replace_placeholder_only",
                     IF orchestrator = Clean THEN TRUE ELSE chuong_v_in_cwd,
                     pdf, answer)))

PipelineNext ==
    \/ main_check_and_clean
    \/ main_exit
    \/ process_document_finish
    \/ process_walking_skeleton_finish
    \/ Step1_ten_goi_thau
    \/ Step2_pham_vi_cung_cap
    \/ Step3_can_cu_phap_ly
    \/ Step4_muc_dich_cong_viec
    \/ Phase2_final_combination
    \/ Step5_cac_buoc_thuc_hien

PipelineSpec == PipelineInit /\ [][PipelineNext]_vars

\* ------------------------------------------- the override on its own
\* The spacing / row-height override of replace_placeholder_only applied to
\* one copied block, and applied to its result once more.
OldSpacing == [before |-> 0, after |-> Pt6, line |-> 0, lineRule |-> "none"]
OldHeight == [val |-> 300, hRule |-> "exact"]

\* a copied paragraph: without pPr, with pPr, with pPr and a spacing entry
OverrideParagraphs ==
    {[ContentParagraph(1) EXCEPT !.pPr = pr[1], !.spacing = pr[2]] :
        pr \in {<<FALSE, <<>> >>, <<TRUE, <<>> >>, <<TRUE, <<OldSpacing>> >>}}

\* the rows of a table nested in a cell: none, or one row without trPr, with
\* trPr, with trPr and a height entry
NestedShapes ==
    {<<>>, <<[trPr |-> FALSE, trHeight |-> <<>>]>>,
     <<[trPr |-> TRUE, trHeight |-> <<>>]>>,
     <<[trPr |-> TRUE, trHeight |-> <<OldHeight>>]>>}

RowShapes ==
    {[trPr |-> pr[1], trHeight |-> pr[2], nested |-> n,
      cells |-> <<<<CellParagraph(<<"a">>)>>>>] :
        pr \in {<<FALSE, <<>> >>, <<TRUE, <<>> >>, <<TRUE, <<OldHeight>> >>},
        n \in NestedShapes}

OverrideTables ==
    UNION {{[kind |-> "t", id |-> 11, rows |-> rows] :
               rows \in [1..n -> RowShapes]} : n \in 1..MaxRows}

OverrideInit ==
    /\ doc \in {<<b>> : b \in OverrideParagraphs \cup OverrideTables}
    /\ target_before = <<>>
    /\ op = "copied"
    /\ template_file = Absent
    /\ content_file = Absent
    /\ output_file = Absent
    /\ output_before = Absent
    /\ ret = "idle"
    /\ orchestrator = "none"
    /\ api_key = TRUE
    /\ chuong_v_in_cwd = FALSE
    /\ pc = "idle"
    /\ processed = [t \in ProcessedTags |-> Absent]
    /\ backups = [n \in BackupNames |-> Absent]
    /\ error = <<>>
    /\ history = <<>>
    /\ last = NoStep
    /\ substituted = {}
    /\ required_files = TRUE
    /\ exit_code = -1
    /\ api_result = Absent
    /\ source_doc = <<>>
    /\ requests = <<>>
    /\ args = NoCall
    /\ returned = NoCall
    /\ cwd = "app"
    /\ TableIdle

\* the override as replace_placeholder_only applies it to a fresh copy
enhance_copy ==
    /\ op = "copied"
    /\ op' = "once"
    /\ target_before' = doc
    /\ doc' = [i \in 1..Len(doc) |-> enhance(doc[i])]
    /\ UNCHANGED <<template_file, content_file, output_file, output_before,
                   ret, source_doc>>
    /\ UNCHANGED <<pipeline_vars, table_vars, requests, unit_vars>>

\* the override applied to an already overridden block
enhance_again ==
    /\ op = "once"
    /\ op' = "twice"
    /\ target_before' = doc
    /\ doc' = [i \in 1..Len(doc) |-> enhance(doc[i])]
    /\ UNCHANGED <<template_file, content_file, output_file, output_before,
                   ret, source_doc>>
    /\ UNCHANGED <<pipeline_vars, table_vars, requests, unit_vars>>

OverrideNext == enhance_copy \/ enhance_again

OverrideSpec == OverrideInit /\ [][OverrideNext]_vars

\* ---------------------------------------------------- the step table
Digits == {"0", "1", "2", "3", "4", "5", "6", "7", "8", "9"}
Lower == {"a", "b"}

\* Python: s.lstrip()
RECURSIVE lstrip(_)
lstrip(s) ==
    IF s # <<>> /\ s[1] \in Whitespace THEN lstrip(Tail(s)) ELSE s

\* Python: s.rstrip()
RECURSIVE rstrip(_)
rstrip(s) ==
    IF s # <<>> /\ s[Len(s)] \in Whitespace
    THEN rstrip(SubSeq(s, 1, Len(s) - 1)) ELSE s

\* step_clean = step_text.strip()
step_clean(text_in) == rstrip(lstrip(text_in))

\* Python: s.isdigit()
isdigit(s) == s # <<>> /\ \A i \in 1..Len(s) : s[i] \in Digits

\* re.match against ^[a-z]\)$, ^[a-z]$ and ^[a-z]{2,}\)$
patterns(s) ==
    \/ Len(s) = 2 /\ s[1] \in Lower /\ s[2] = ")"
    \/ Len(s) = 1 /\ s[1] \in Lower
    \/ /\ Len(s) >= 3
       /\ s[Len(s)] = ")"
       /\ \A i \in 1..(Len(s) - 1) : s[i] \in Lower

is_sub_step(text_in) ==
    IF text_in = <<>> THEN FALSE
    ELSE IF isdigit(step_clean(text_in)) THEN FALSE
    ELSE IF patterns(step_clean(text_in)) THEN TRUE
    ELSE TRUE

\* the run of a table cell; bold and italic are None until assigned
CellRun(t) == [text |-> t, bold |-> "None", italic |-> "None"]

\* a row left as the sub-step styling made it
header_unstyled(i, row) == row

\* "Header row formatting": row index 0 of the source is row 1 here
header_row(i, row) ==
    IF i = 1
    THEN [c \in 1..2 |-> [row[c] EXCEPT !.bold = "True", !.italic = "False"]]
    ELSE row

\* one pass of the loop over parsed_rows: both cells of the row
table_row(i, row_data) ==
    LET step_number == IF Len(row_data) > 0 THEN step_clean(row_data[1])
                       ELSE <<>>
        content_text == IF Len(row_data) > 1 THEN row_data[2] ELSE <<>>
        run1 == CellRun(step_number)
        run2 == CellRun(content_text)
        row == IF is_sub_step(step_number)
               THEN <<[run1 EXCEPT !.italic = "True"],
                      [run2 EXCEPT !.italic = "True"]>>
               ELSE <<run1, run2>>
    IN  header_row(i, row)

create_formatted_docx(paragraph1, paragraph2, rows) ==
    [exists |-> TRUE,
     paragraphs |-> (IF paragraph1 THEN 1 ELSE 0) + (IF paragraph2 THEN 1 ELSE 0),
     table |-> [i \in 1..Len(rows) |-> table_row(i, rows[i])]]

\* no replacement call and no orchestrator is under way
ProcessorsIdle ==
    /\ template_file = Absent
    /\ content_file = Absent
    /\ output_file = Absent
    /\ output_before = Absent
    /\ target_before = <<>>
    /\ doc = <<>>
    /\ ret = "idle"
    /\ op = "idle"
    /\ orchestrator = "none"
    /\ api_key = TRUE
    /\ chuong_v_in_cwd = FALSE
    /\ pc = "idle"
    /\ processed = [t \in ProcessedTags |-> Absent]
    /\ backups = [n \in BackupNames |-> Absent]
    /\ error = <<>>
    /\ history = <<>>
    /\ last = NoStep
    /\ substituted = {}
    /\ required_files = TRUE
    /\ exit_code = -1
    /\ api_result = Absent
    /\ source_doc = <<>>
    /\ requests = <<>>

LabelChars == {"1", "a", ")", " "}

Labels == UNION {[1..n -> LabelChars] : n \in 0..MaxLabel}

PredicateInit ==
    /\ ProcessorsIdle
    /\ args = NoCall
    /\ returned = NoCall
    /\ cwd = "app"
    /\ step_text \in Labels
    /\ sub_step = "idle"
    /\ parsed_rows = <<>>
    /\ step_doc = [exists |-> FALSE, paragraphs |-> 0, table |-> <<>>]

IsSubStep ==
    /\ sub_step = "idle"
    /\ sub_step' = IF is_sub_step(step_text) THEN "True" ELSE "False"
    /\ UNCHANGED <<step_text, parsed_rows, step_doc, template_file,
                   output_file>>
    /\ UNCHANGED <<splice_vars, pipeline_vars, requests, unit_vars>>

PredicateNext == IsSubStep

PredicateSpec == PredicateInit /\ [][PredicateNext]_vars

\* first-cell labels of the CSV rows, blank and padded ones included
StepLabels ==
    {<<>>, <<"1">>, <<"a", ")">>, <<" ", "2">>, <<"b">>, <<" ">>}

\* parsed rows: no cell, one cell, two cells
StepRows ==
    {<<>>, <<<<"1">>>>} \cup {<<l, <<"w">>>> : l \in StepLabels}

StepTableInit ==
    /\ ProcessorsIdle
    /\ args = NoCall
    /\ returned = NoCall
    /\ cwd = "app"
    /\ step_text = <<>>
    /\ sub_step = "idle"
    /\ parsed_rows \in UNION {[1..n -> StepRows] : n \in 0..MaxSteps}
    /\ step_doc = [exists |-> FALSE, paragraphs |-> 0, table |-> <<>>]

CreateFormattedDocx ==
    /\ ~step_doc.exists
    /\ \E paragraph1, paragraph2 \in BOOLEAN :
          step_doc' = create_formatted_docx(paragraph1, paragraph2, parsed_rows)
    /\ UNCHANGED <<step_text, sub_step, parsed_rows, template_file,
                   output_file>>
    /\ UNCHANGED <<splice_vars, pipeline_vars, requests, unit_vars>>

StepTableNext == CreateFormattedDocx

StepTableSpec == StepTableInit /\ [][StepTableNext]_vars

\* ------------------------------------ concurrent requests to the clean API
\* the upload sets a request can carry, told apart by a number
Uploads == 1..MaxUploads

\* what process_all_placeholders hands back for an upload set once every
\* step succeeded: the output document generated from these uploads
generated(upload) == File(<<ContentParagraph(upload)>>)

\* the requests served by one process
Requests == 1..MaxRequests

ConcurrentInit ==
    /\ template_file = Absent
    /\ content_file = Absent
    /\ output_file = Absent
    /\ output_before = Absent
    /\ target_before = <<>>
    /\ doc = <<>>
    /\ ret = "idle"
    /\ op = "idle"
    /\ orchestrator = Clean
    /\ api_key = TRUE
    /\ chuong_v_in_cwd = FALSE
    /\ pc = "idle"
    /\ processed = [t \in ProcessedTags |-> Absent]
    /\ backups = [n \in BackupNames |-> Absent]
    /\ error = <<>>
    /\ history = <<>>
    /\ last = NoStep
    /\ substituted = {}
    /\ required_files = TRUE
    /\ exit_code = -1
    /\ source_doc = <<>>
    /\ TableIdle
    /\ api_result \in {Absent, File(StaleOutput)}
    /\ args = NoCall
    /\ returned = NoCall
    /\ cwd = "app"
    /\ requests \in [Requests ->
           {[upload |-> u, pc |-> "received", response |-> Absent] :
               u \in Uploads}]

\* process_document from its first line to its return or raise; the handler
\* has no await, so the event loop runs it in one piece: workspace, pipeline,
\* copy to api_result.docx, cleanup, and a FileResponse on that path; after an
\* exception cleanup and a 500
process_document(r) ==
    /\ requests[r].pc = "received"
    /\ \E success \in BOOLEAN :
          IF success
          THEN /\ api_result' = generated(requests[r].upload)
               /\ requests' = [requests EXCEPT ![r].pc = "responding"]
          ELSE /\ api_result' = api_result
               /\ requests' = [requests EXCEPT ![r].pc = "failed"]
    /\ UNCHANGED <<template_file, output_file, orchestrator, api_key,
                   chuong_v_in_cwd, pc, processed, backups, error, history,
                   last, substituted, required_files, exit_code>>
    /\ UNCHANGED <<splice_vars, table_vars, unit_vars>>

\* the server sends the FileResponse: the file at its path is opened and read
\* now, after the handler has returned
FileResponse_send(r) ==
    /\ requests[r].pc = "responding"
    /\ requests' = [requests EXCEPT ![r].pc = "delivered",
                                    ![r].response = api_result]
    /\ UNCHANGED <<template_file, output_file>>
    /\ UNCHANGED <<splice_vars, pipeline_vars, table_vars, unit_vars>>

ConcurrentNext ==
    \E r \in Requests : process_document(r) \/ FileResponse_send(r)

ConcurrentSpec == ConcurrentInit /\ [][ConcurrentNext]_vars


\* ------------------------------------------ one request from end to end
\* the file names save_uploaded_pdfs keeps
required_pdfs ==
    {"TBMT.pdf", "BMMT.pdf", "CHUONG_III.pdf", "CHUONG_V.pdf", "HSMT.pdf"}

\* the uploads a request can get saved: all five, one under another name,
\* none under an expected name
SavedSets == {required_pdfs, required_pdfs \ {"HSMT.pdf"}, {}}

Endpoints == {"/api/process-document", "/api/process-skeleton"}

\* the directories the server can have been started in
StartDirs == {"app", "srv"}

\* the five steps of the orchestration; 0 stands for no failing step
FailingSteps == 0..5

\* a cleanup that leaves the workspace where it is
cleanup_skipped(work_dir) == work_dir

\* WalkingSkeletonProcessor.cleanup: rmtree of the workspace when there is one
cleanup(work_dir) == IF work_dir = "exists" THEN "removed" ELSE work_dir

\* the file at <work_dir>/02_MUC_DO_HIEU_BIET_output.docx
in_work_dir(work_dir, file) == IF work_dir = "exists" THEN file ELSE Absent

\* a request as the server receives it
Received(endpoint, saved) ==
    [endpoint |-> endpoint, saved |-> saved, pc |-> "received",
     status |-> 0, detail |-> "none", started |-> FALSE,
     work_dir |-> "none", work_output |-> Absent, path |-> "none",
     cwd_before |-> "none", cwd_after |-> "none", response |-> Absent]

EndpointInit ==
    /\ template_file = Absent
    /\ content_file = Absent
    /\ output_file = Absent
    /\ output_before = Absent
    /\ target_before = <<>>
    /\ doc = <<>>
    /\ ret = "idle"
    /\ op = "idle"
    /\ orchestrator = "none"
    /\ api_key = TRUE
    /\ chuong_v_in_cwd = FALSE
    /\ pc = "idle"
    /\ processed = [t \in ProcessedTags |-> Absent]
    /\ backups = [n \in BackupNames |-> Absent]
    /\ error = <<>>
    /\ history = <<>>
    /\ last = NoStep
    /\ substituted = {}
    /\ required_files = TRUE
    /\ exit_code = -1
    /\ source_doc = <<>>
    /\ TableIdle
    /\ api_result = Absent
    /\ args = NoCall
    /\ returned = NoCall
    /\ cwd \in StartDirs
    /\ requests \in [Requests ->
           {Received(e, s) : e \in Endpoints, s \in SavedSets}]

\* what a handler leaves behind for a request: r is the request, raised the
\* exception that left the try block ("none" when it returned), started
\* whether the orchestration was called, work_dir the workspace after the
\* handler, path the path handed to FileResponse
Handled(r, raised, started, work_dir, path) ==
    [requests[r] EXCEPT
        !.pc = IF raised = "none" THEN "responding" ELSE "failed",
        !.status = IF raised = "none" THEN 200 ELSE 500,
        !.detail = raised,
        !.started = started,
        !.work_dir = work_dir,
        !.work_output = IF raised = "none"
                        THEN in_work_dir(work_dir, generated(r)) ELSE Absent,
        !.path = path,
        !.cwd_before = IF started THEN cwd ELSE "none",
        !.cwd_after = IF started THEN cwd' ELSE "none"]

\* POST /api/process-document: workspace, templates, uploads, the check of the
\* uploads, the orchestration, the copy to api_result.docx, cleanup and the
\* FileResponse; every exception raised in the try block, the HTTPException
\* of the upload check included, reaches `except Exception`, which cleans up
\* and raises HTTPException(500)
endpoint_process_document(r) ==
    /\ requests[r].pc = "received"
    /\ requests[r].endpoint = "/api/process-document"
    /\ \E templates \in BOOLEAN, failed \in FailingSteps :
          LET missing == required_pdfs \ requests[r].saved
              raised ==
                  IF ~templates THEN "FileNotFoundError"
                  ELSE IF missing # {} THEN "HTTPException 400"
                  ELSE IF failed # 0 THEN "Exception" ELSE "none"
              started == templates /\ missing = {}
              original_cwd == cwd
          IN  /\ cwd' = original_cwd
              /\ api_result' =
                     IF raised = "none" THEN generated(r) ELSE api_result
              /\ requests' = [requests EXCEPT ![r] =
                     Handled(r, raised, started, cleanup("exists"),
                             IF raised = "none" THEN "api_result.docx"
                             ELSE "none")]
    /\ UNCHANGED <<template_file, output_file, orchestrator, api_key,
                   chuong_v_in_cwd, pc, processed, backups, error, history,
                   last, substituted, required_files, exit_code>>
    /\ UNCHANGED <<splice_vars, table_vars, args, returned>>

\* POST /api/process-skeleton: workspace, uploads, the check of the uploads,
\* the orchestration (which copies the templates itself) and a FileResponse on
\* the output file inside the workspace; `except Exception` turns every
\* exception into HTTPException(500), and `finally` cleans up on every path,
\* the returning one included
process_walking_skeleton(r) ==
    /\ requests[r].pc = "received"
    /\ requests[r].endpoint = "/api/process-skeleton"
    /\ \E failed \in FailingSteps :
          LET missing == required_pdfs \ requests[r].saved
              raised ==
                  IF missing # {} THEN "HTTPException 400"
                  ELSE IF failed # 0 THEN "Exception" ELSE "none"
              started == missing = {}
              original_cwd == cwd
          IN  /\ cwd' = original_cwd
              /\ requests' = [requests EXCEPT ![r] =
                     Handled(r, raised, started, cleanup("exists"),
                             IF raised = "none" THEN "work_dir"
                             ELSE "none")]
    /\ UNCHANGED <<template_file, output_file, orchestrator, api_key,
                   chuong_v_in_cwd, pc, processed, backups, error, history,
                   last, substituted, required_files, exit_code, api_result>>
    /\ UNCHANGED <<splice_vars, table_vars, args, returned>>

\* the server sends the FileResponse of a request: the file at the path the
\* handler gave is opened and read now
send_file(r) ==
    /\ requests[r].pc = "responding"
    /\ requests' = [requests EXCEPT
           ![r].pc = "delivered",
           ![r].response = IF requests[r].path = "api_result.docx"
                           THEN api_result ELSE requests[r].work_output]
    /\ UNCHANGED <<template_file, output_file>>
    /\ UNCHANGED <<splice_vars, pipeline_vars, table_vars, unit_vars>>

EndpointNext ==
    \E r \in Requests :
        \/ endpoint_process_document(r)
        \/ process_walking_skeleton(r)
        \/ send_file(r)

EndpointSpec == EndpointInit /\ [][EndpointNext]_vars

\* ------------------------------- run-level replacement in one paragraph
\* the characters of a paragraph text: those of the placeholder and another
TextChars == {"{", ten_goi_thau, "}", "x"}

\* the paragraph texts that hold the placeholder
MarkedTexts ==
    {t \in UNION {[1..n -> TextChars] : n \in 3..MaxText} :
        Contains(t, Placeholder(ten_goi_thau))}

\* the ways to cut a text of the given length into n runs: the offsets at
\* which the runs after the first begin; equal offsets give empty runs
Cuts(length, n) ==
    {c \in [1..(n - 1) -> 0..length] :
        \A i \in 1..(n - 2) : c[i] <= c[i + 1]}

\* the runs of a text cut at the offsets c, each with a font size of its own
RunsOf(t, c) ==
    [i \in 1..(Len(c) + 1) |->
        Run(SubSeq(t, (IF i = 1 THEN 0 ELSE c[i - 1]) + 1,
                   IF i = Len(c) + 1 THEN Len(t) ELSE c[i]),
            10 + i, "Arial")]

RunInit ==
    /\ ProcessorsIdle
    /\ TableIdle
    /\ cwd = "app"
    /\ \E t \in MarkedTexts, n \in 1..MaxRuns, content \in Replacements :
          \E c \in Cuts(Len(t), n) :
              args = [name |-> "replace_placeholder_in_docx",
                      runs |-> RunsOf(t, c), content |-> content]
    /\ returned = NoCall

\* the paragraph loop of replace_placeholder_in_docx on a document of one
\* body paragraph with the given runs
ReplaceInParagraph ==
    /\ args.name = "replace_placeholder_in_docx"
    /\ returned = NoCall
    /\ LET result(r) ==
               [name |-> "replace_placeholder_in_docx",
                replaced |-> r.replaced, runs |-> r.body[1].runs]
       IN  returned' = result(replace_in_paragraphs(
               <<[PlainParagraph(1) EXCEPT !.runs = args.runs]>>,
               Placeholder(ten_goi_thau), args.content, 1))
    /\ UNCHANGED <<template_file, output_file, requests, args, cwd>>
    /\ UNCHANGED <<splice_vars, pipeline_vars, table_vars>>

RunNext == ReplaceInParagraph

RunSpec == RunInit /\ [][RunNext]_vars

\* ------------------------------------------------ parse_extracted_section
\* the markers of the extracted section, each one character of the model
PARAGRAPH1 == "PARAGRAPH1:"
PARAGRAPH2 == "PARAGRAPH2:"
TABLE_START == "TABLE_START"
TABLE_END == "TABLE_END"

\* Python: s.startswith(prefix)
startswith(s, prefix) ==
    Len(s) >= Len(prefix) /\ SubSeq(s, 1, Len(prefix)) = prefix

\* Python: s.strip()
stripped(s) == rstrip(lstrip(s))

\* the for loop of parse_extracted_section from line i on; st holds
\* paragraph1, paragraph2, table_rows and current_mode
RECURSIVE parse_lines(_, _, _)
parse_lines(lines, i, st) ==
    IF i > Len(lines) THEN st
    ELSE LET line == stripped(lines[i])
         IN  parse_lines(lines, i + 1,
                 IF startswith(line, <<PARAGRAPH1>>)
                 THEN [st EXCEPT !.paragraph1 =
                          stripped(str_replace(line, <<PARAGRAPH1>>, <<>>))]
                 ELSE IF startswith(line, <<PARAGRAPH2>>)
                 THEN [st EXCEPT !.paragraph2 =
                          stripped(str_replace(line, <<PARAGRAPH2>>, <<>>))]
                 ELSE IF line = <<TABLE_START>>
                 THEN [st EXCEPT !.current_mode = "table"]
                 ELSE IF line = <<TABLE_END>>
                 THEN [st EXCEPT !.current_mode = "done"]
                 ELSE IF /\ st.current_mode = "table"
                         /\ line # <<>>
                         /\ Contains(line, <<",">>)
                 THEN [st EXCEPT !.table_rows = Append(@, line)]
                 ELSE st)

parse_extracted_section(lines) ==
    parse_lines(lines, 1,
                [paragraph1 |-> <<>>, paragraph2 |-> <<>>,
                 table_rows |-> <<>>, current_mode |-> "search"])

\* the lines section_content.split('\n') can give: markers, padded markers,
\* rows with and without a comma, a blank line, the two paragraph lines
SectionLines ==
    {<<>>, <<TABLE_START>>, <<" ", TABLE_END>>, <<"1", ",", "x">>,
     <<" ", "a", ",">>, <<"x">>, <<PARAGRAPH1, " ", "x">>,
     <<PARAGRAPH2, "y", " ">>}

ParseInit ==
    /\ ProcessorsIdle
    /\ TableIdle
    /\ cwd = "app"
    /\ args \in {[name |-> "parse_extracted_section", lines |-> lines] :
                    lines \in UNION {[1..n -> SectionLines] :
                                        n \in 1..MaxSection}}
    /\ returned = NoCall

ParseExtractedSection ==
    /\ args.name = "parse_extracted_section"
    /\ returned = NoCall
    /\ LET result(st) ==
               [name |-> "parse_extracted_section",
                paragraph1 |-> st.paragraph1, paragraph2 |-> st.paragraph2,
                table_rows |-> st.table_rows]
       IN  returned' = result(parse_extracted_section(args.lines))
    /\ UNCHANGED <<template_file, output_file, requests, args, cwd>>
    /\ UNCHANGED <<splice_vars, pipeline_vars, table_vars>>

ParseNext == ParseExtractedSection

ParseSpec == ParseInit /\ [][ParseNext]_vars

\* --------------------------------------------- parse_text_into_paragraphs
\* a loop body that treats a dash line as a continuation
paragraph_step_without_dash(st, line) ==
    IF line = <<>>
    THEN IF st.current_paragraph # <<>>
         THEN [paragraphs |-> Append(st.paragraphs,
                                     stripped(st.current_paragraph)),
               current_paragraph |-> <<>>]
         ELSE st
    ELSE [st EXCEPT !.current_paragraph =
             IF @ # <<>> THEN @ \o <<" ">> \o line ELSE line]

\* the body of the loop over the lines; line is the stripped line
paragraph_step(st, line) ==
    IF line = <<>>
    THEN IF st.current_paragraph # <<>>
         THEN [paragraphs |-> Append(st.paragraphs,
                                     stripped(st.current_paragraph)),
               current_paragraph |-> <<>>]
         ELSE st
    ELSE IF startswith(line, <<"-">>)
    THEN [paragraphs |-> IF st.current_paragraph # <<>>
                         THEN Append(st.paragraphs,
                                     stripped(st.current_paragraph))
                         ELSE st.paragraphs,
          current_paragraph |-> line]
    ELSE [st EXCEPT !.current_paragraph =
             IF @ # <<>> THEN @ \o <<" ">> \o line ELSE line]

RECURSIVE parse_text_lines(_, _, _)
parse_text_lines(lines, i, st) ==
    IF i > Len(lines) THEN st
    ELSE parse_text_lines(lines, i + 1,
                          paragraph_step(st, stripped(lines[i])))

\* lines is extracted_text.split('\n'); the empty text gives []
parse_text_into_paragraphs(lines) ==
    IF lines = <<<<>>>> THEN <<>>
    ELSE LET st == parse_text_lines(lines, 1,
                       [paragraphs |-> <<>>, current_paragraph |-> <<>>])
         IN  IF st.current_paragraph # <<>>
             THEN Append(st.paragraphs, stripped(st.current_paragraph))
             ELSE st.paragraphs

\* the lines of an extracted text: empty, blank, dash lines, plain lines
TextLines ==
    {<<>>, <<" ">>, <<"-", "x">>, <<" ", "-">>, <<"x">>, <<"y", " ">>}

ParagraphsInit ==
    /\ ProcessorsIdle
    /\ TableIdle
    /\ cwd = "app"
    /\ args \in {[name |-> "parse_text_into_paragraphs", lines |-> lines] :
                    lines \in UNION {[1..n -> TextLines] :
                                        n \in 1..MaxSection}}
    /\ returned = NoCall

ParseTextIntoParagraphs ==
    /\ args.name = "parse_text_into_paragraphs"
    /\ returned = NoCall
    /\ returned' = [name |-> "parse_text_into_paragraphs",
                    paragraphs |-> parse_text_into_paragraphs(args.lines)]
    /\ UNCHANGED <<template_file, output_file, requests, args, cwd>>
    /\ UNCHANGED <<splice_vars, pipeline_vars, table_vars>>

ParagraphsNext == ParseTextIntoParagraphs

ParagraphsSpec == ParagraphsInit /\ [][ParagraphsNext]_vars

\* ---------------------------------------- extract_text_between_boundaries
\* the sixth tag, of the text processor
cac_buoc_text == "t"

\* Python: s.lower(); the capitals of the model are H, Y, T and S
lower(s) ==
    [i \in 1..Len(s) |->
        CASE s[i] = "H" -> "h" [] s[i] = "Y" -> "y" [] s[i] = "T" -> "t"
          [] s[i] = "S" -> "s" [] OTHER -> s[i]]

\* Python: s.find(sub, start), 0-based, -1 when there is none
find_from(s, sub, start) ==
    LET hits == {i \in start..(Len(s) - Len(sub)) :
                    SubSeq(s, i + 1, i + Len(sub)) = sub}
    IN  IF hits = {} THEN -1 ELSE CHOOSE i \in hits : \A j \in hits : i <= j

\* Python: s[start:stop] for 0 <= start, 0 <= stop <= len(s)
slice(s, start, stop) == SubSeq(s, start + 1, stop)

\* Python: s.endswith(suffix)
endswith(s, suffix) ==
    Len(s) >= Len(suffix)
        /\ SubSeq(s, Len(s) - Len(suffix) + 1, Len(s)) = suffix

\* Python: s.split('\n')
RECURSIVE split_lines(_)
split_lines(s) ==
    LET n == find_from(s, <<"\n">>, 0)
    IN  IF n = -1 THEN <<s>>
        ELSE <<slice(s, 0, n)>> \o split_lines(slice(s, n + 1, Len(s)))

\* the heading search: the exact text, then the key words of the heading in
\* the lowered PDF text; "y" stands for a key word
heading_position(pdf_content, heading_text) ==
    IF heading_text = <<>> THEN -1
    ELSE IF find_from(pdf_content, heading_text, 0) # -1
    THEN find_from(pdf_content, heading_text, 0)
    ELSE IF Contains(lower(heading_text), <<"y">>)
    THEN find_from(lower(pdf_content), <<"y">>, 0)
    ELSE -1

\* the table search: the exact text, then the patterns in the lowered PDF
\* text; "s" stands for the first pattern that is found
table_position(pdf_content, table_start_text) ==
    IF table_start_text = <<>> THEN -1
    ELSE IF find_from(pdf_content, table_start_text, 0) # -1
    THEN find_from(pdf_content, table_start_text, 0)
    ELSE find_from(lower(pdf_content), <<"s">>, 0)

\* an extraction that begins at the heading itself
heading_line_start(pdf_content, heading_pos, heading_text) == heading_pos

\* the end of the heading line: the next newline, or the end of the heading
\* text when no newline follows
heading_line_end(pdf_content, heading_pos, heading_text) ==
    IF find_from(pdf_content, <<"\n">>, heading_pos) = -1
    THEN heading_pos + Len(heading_text)
    ELSE find_from(pdf_content, <<"\n">>, heading_pos)

\* the cleanup of a trailing "Số TT", here the character S
cleanup_patterns(extracted_text) ==
    IF endswith(extracted_text, <<"S">>)
    THEN stripped(slice(extracted_text, 0, Len(extracted_text) - 1))
    ELSE extracted_text

\* heading_text and table_start_text are the values read from the
\* HEADING_TEXT: and TABLE_START_TEXT: lines of the boundaries
extract_text_between_boundaries(pdf_content, heading_text, table_start_text) ==
    LET heading_pos == heading_position(pdf_content, heading_text)
        table_pos == table_position(pdf_content, table_start_text)
    IN  IF heading_pos = -1 THEN <<>>
        ELSE IF table_pos = -1 THEN <<>>
        ELSE IF table_pos <= heading_pos THEN <<>>
        ELSE cleanup_patterns(stripped(slice(pdf_content,
                 heading_line_end(pdf_content, heading_pos, heading_text),
                 table_pos)))

\* create_text_docx: one paragraph per parsed paragraph that is not empty
create_text_docx(parsed) ==
    File([i \in 1..Len(parsed) |->
             [ContentParagraph(i) EXCEPT
                 !.runs = <<Run(parsed[i], Pt14, "Times New Roman")>>]])

\* the characters of the PDF text: heading, key word, table text, pattern,
\* newline, other text
PdfChars == {"H", "Y", "T", "S", "\n", "x"}

PdfTexts == UNION {[1..n -> PdfChars] : n \in 0..MaxPdf}

\* the heading the model answered: none, the exact one, one with a key word
HeadingTexts == {<<>>, <<"H">>, <<"y", "q">>}

\* the table start the model answered: none, the exact one, one not in the PDF
TableStartTexts == {<<>>, <<"T">>, <<"q">>}

ExtractionInit ==
    /\ template_file =
           File(<<MarkerParagraph(1, cac_buoc_text), PlainParagraph(2)>>)
    /\ content_file = Absent
    /\ output_file = File(StaleOutput)
    /\ output_before = output_file
    /\ target_before = <<>>
    /\ doc = <<>>
    /\ ret = "idle"
    /\ op = "idle"
    /\ orchestrator = "none"
    /\ api_key = TRUE
    /\ chuong_v_in_cwd = FALSE
    /\ pc = "idle"
    /\ processed = [t \in ProcessedTags |-> Absent]
    /\ backups = [n \in BackupNames |-> Absent]
    /\ error = <<>>
    /\ history = <<>>
    /\ last = NoStep
    /\ substituted = {}
    /\ required_files = TRUE
    /\ exit_code = -1
    /\ api_result = Absent
    /\ source_doc = <<>>
    /\ requests = <<>>
    /\ TableIdle
    /\ cwd = "app"
    /\ args \in {[name |-> "test_text_extraction", pdf_content |-> p,
                  heading_text |-> h, table_start_text |-> t] :
                    p \in PdfTexts, h \in HeadingTexts,
                    t \in TableStartTexts}
    /\ returned = NoCall

\* test_text_extraction once CHUONG_V.pdf is read and the boundaries are
\* answered: extraction, and only for a non-empty text the paragraphs, the
\* content document, the copy of the template and the replacement
test_text_extraction ==
    /\ args.name = "test_text_extraction"
    /\ returned = NoCall
    /\ LET extracted_text ==
               extract_text_between_boundaries(args.pdf_content,
                   args.heading_text, args.table_start_text)
           content ==
               create_text_docx(parse_text_into_paragraphs(
                                    split_lines(extracted_text)))
           saved(r) == File(r.doc)
       IN  IF extracted_text = <<>>
           THEN /\ returned' = [name |-> "test_text_extraction",
                                extracted_text |-> extracted_text,
                                result |-> "False"]
                /\ UNCHANGED <<content_file, output_file>>
           ELSE /\ returned' = [name |-> "test_text_extraction",
                                extracted_text |-> extracted_text,
                                result |-> "True"]
                /\ content_file' = content
                /\ output_file' =
                       saved(replace_placeholder(template_file.body, content,
                                                 Placeholder(cac_buoc_text)))
    /\ UNCHANGED <<template_file, output_before, target_before, doc, ret, op,
                   source_doc, requests, args, cwd>>
    /\ UNCHANGED <<pipeline_vars, table_vars>>

ExtractionNext == test_text_extraction

ExtractionSpec == ExtractionInit /\ [][ExtractionNext]_vars

\* ------------------------------------ replace_text_variables_preserve_runs
\* the most characters a window of runs is grown to
WindowChars == 100

\* the first j in i+1..len(runs) for which the text of the runs i..j-1 (0-based)
\* holds the placeholder, the window being grown only while it has fewer than
\* WindowChars characters; 0 when there is none
window_end(runs, i, placeholder) ==
    LET window(j) == runs_text(SubSeq(runs, i + 1, j))
        ends == {j \in (i + 1)..Len(runs) :
                    /\ Contains(window(j), placeholder)
                    /\ Len(window(j - 1)) < WindowChars}
    IN  IF ends = {} THEN 0 ELSE CHOOSE j \in ends : \A k \in ends : j <= k

\* the write-back for the window i..j-1: the runs of the window are cleared,
\* then runs[i], runs[i + 1] and runs[i + 2] are assigned; an index past the
\* last run raises IndexError with the assignments made so far in place
write_back(runs, i, j, placeholder, val) ==
    LET run_text == runs_text(SubSeq(runs, i + 1, j))
        n == find(run_text, placeholder)
        before == SubSeq(run_text, 1, n)
        after == SubSeq(run_text, n + Len(placeholder) + 1, Len(run_text))
        cleared == [k \in 1..Len(runs) |->
                       IF i + 1 <= k /\ k <= j
                       THEN [runs[k] EXCEPT !.text = <<>>] ELSE runs[k]]
        first == IF before # <<>>
                 THEN [cleared EXCEPT ![i + 1].text = before] ELSE cleared
    IN  IF i + 1 >= Len(runs)
        THEN [raised |-> "IndexError", runs |-> first]
        ELSE LET second == [first EXCEPT ![i + 2].text = val]
             IN  IF after = <<>> THEN [raised |-> "none", runs |-> second]
                 ELSE IF i + 2 >= Len(runs)
                 THEN [raised |-> "IndexError", runs |-> second]
                 ELSE [raised |-> "none",
                       runs |-> [second EXCEPT ![i + 3].text = after]]

\* the while loop over the runs of one paragraph from run i (0-based) on, for
\* a var_dict of one key; after a match the loop goes on behind the window
RECURSIVE replace_from(_, _, _, _)
replace_from(runs, i, placeholder, val) ==
    IF i >= Len(runs) THEN [raised |-> "none", runs |-> runs]
    ELSE LET j == window_end(runs, i, placeholder)
         IN  IF j = 0 THEN replace_from(runs, i + 1, placeholder, val)
             ELSE LET written == write_back(runs, i, j, placeholder, val)
                  IN  IF written.raised # "none" THEN written
                      ELSE replace_from(written.runs, j + 1, placeholder, val)

replace_text_variables_preserve_runs(runs, key, val) ==
    replace_from(runs, 0, Placeholder(key), val)

VariablesInit ==
    /\ ProcessorsIdle
    /\ TableIdle
    /\ cwd = "app"
    /\ \E t \in MarkedTexts, n \in 1..MaxRuns, val \in Replacements :
          \E c \in Cuts(Len(t), n) :
              args = [name |-> "replace_text_variables_preserve_runs",
                      runs |-> RunsOf(t, c), val |-> val]
    /\ returned = NoCall

\* replace_text_variables_preserve_runs on a document of one paragraph with
\* var_dict = {ten_goi_thau: val}
ReplaceTextVariables ==
    /\ args.name = "replace_text_variables_preserve_runs"
    /\ returned = NoCall
    /\ LET result(r) ==
               [name |-> "replace_text_variables_preserve_runs",
                raised |-> r.raised, runs |-> r.runs]
       IN  returned' = result(replace_text_variables_preserve_runs(
                                  args.runs, ten_goi_thau, args.val))
    /\ UNCHANGED <<template_file, output_file, requests, args, cwd>>
    /\ UNCHANGED <<splice_vars, pipeline_vars, table_vars>>

VariablesNext == ReplaceTextVariables

VariablesSpec == VariablesInit /\ [][VariablesNext]_vars

\* ------------------------------------ process_complete_workflow on its own
WorkflowInit ==
    /\ template_file \in {File(b) : b \in PipelineTemplates} \cup {Absent}
    /\ output_file \in {Absent, File(StaleOutput)}
    /\ output_before = output_file
    /\ chuong_v_in_cwd \in BOOLEAN
    /\ args \in {[name |-> "process_complete_workflow", pdf |-> pdf,
                  answer |-> answer] :
                    pdf \in PdfOutcomes, answer \in StepAnswers}
    /\ returned = NoCall
    /\ cwd = "app"
    /\ content_file = Absent
    /\ target_before = <<>>
    /\ doc = <<>>
    /\ ret = "idle"
    /\ op = "idle"
    /\ source_doc = <<>>
    /\ orchestrator = "none"
    /\ api_key = TRUE
    /\ pc = "idle"
    /\ processed = [t \in ProcessedTags |-> Absent]
    /\ backups = [n \in BackupNames |-> Absent]
    /\ error = <<>>
    /\ history = <<>>
    /\ last = NoStep
    /\ substituted = {}
    /\ required_files = TRUE
    /\ exit_code = -1
    /\ api_result = Absent
    /\ requests = <<>>
    /\ TableIdle

\* CombinedProcessor().process_complete_workflow() with the class defaults:
\* template and output are different files, replace_placeholder_only is the
\* method of the class
CombinedProcessor_process_complete_workflow ==
    /\ args.name = "process_complete_workflow"
    /\ returned = NoCall
    /\ LET o == process_complete_workflow(template_file, output_file,
                    "replace_placeholder_only", chuong_v_in_cwd, args.pdf,
                    args.answer)
           asked == template_file.exists /\ chuong_v_in_cwd
                       /\ args.pdf # "none"
       IN  /\ output_file' = o.output
           /\ returned' =
                  [name |-> "process_complete_workflow",
                   result |-> o.result,
                   step_count |-> IF asked
                                  THEN detect_steps_with_openai(args.answer)
                                  ELSE "not asked"]
    /\ UNCHANGED <<template_file, args, requests, cwd>>
    /\ UNCHANGED <<splice_vars, table_vars>>
    /\ UNCHANGED <<orchestrator, api_key, chuong_v_in_cwd, pc, processed,
                   backups, error, history, last, substituted,
                   required_files, exit_code, api_result>>

WorkflowNext == CombinedProcessor_process_complete_workflow

WorkflowSpec == WorkflowInit /\ [][WorkflowNext]_vars

\* ----------------------------------------------- vocabulary of the claims
\* the variants that copy all_elements (paragraphs and tables)
CopyOps ==
    {"CombinedProcessor.replace_placeholder_only",
     "docx_processor.replace_placeholder_only",
     "PhamViCungCapProcessor.replace_placeholder",
     "CacBuocThucHienProcessor.replace_placeholder",
     "smart_replace", "smart_replace.original",
     "smart_replace_final", "smart_replace_final.original"}

\* the variants that copy paragraphs and re-apply the source formatting
FormattedOps ==
    {"CanCuPhapLyProcessor.replace_placeholder",
     "MucDichProcessor.replace_placeholder"}

TextOp == "VietnameseProcurementProcessor.replace_placeholder_in_docx"

Ids(blocks) == [i \in 1..Len(blocks) |-> blocks[i].id]

IsMarker(b) == IsParagraph(b) /\ Contains(text(b), PH)
Markers(body) == SelectSeq(body, IsMarker)

\* body position (1-based) of the first marker paragraph, 0 when there is none
MarkerPos(body) ==
    IF Markers(body) = <<>> THEN 0
    ELSE CHOOSE i \in 1..Len(body) :
            IsMarker(body[i]) /\ \A j \in 1..(i - 1) : ~IsMarker(body[j])

\* a block of the content document that the filter of the spec retains
Retained(b) == IsTable(b) \/ (IsParagraph(b) /\ strip(text(b)))

\* k: non-blank paragraphs plus tables of the content body
RetainedCount(body) == Cardinality({i \in 1..Len(body) : Retained(body[i])})

\* the call ran to its end on an existing content document
Completed == op # "idle" /\ ret # "raise" /\ content_file.exists

\* the call found the marker and spliced
Spliced == Completed /\ MarkerPos(target_before) > 0

\* C1: after a splice by a variant that copies paragraphs and
\* tables, the blocks at the marker's former position are the retained blocks
\* of the content body in the order they have in that body.
C1_OrderPreserved ==
    (Spliced /\ op \in CopyOps) =>
        LET m == MarkerPos(target_before)
            kept == SelectSeq(content_file.body, Retained)
        IN  /\ Len(doc) >= m - 1 + Len(kept)
            /\ Ids(SubSeq(doc, m, m - 1 + Len(kept))) = Ids(kept)

\* C2: a successful splice by the can_cu / muc_dich variant leaves
\* every block before and after the marker exactly as it was (position, text,
\* spacing, indents, run fonts); only the marker is replaced by the copies.
C2_FrameUnchanged ==
    (Spliced /\ op \in FormattedOps) =>
        LET m == MarkerPos(target_before)
            k == Len(source_paragraphs(content_file.body))
        IN  /\ Len(doc) = Len(target_before) - 1 + k
            /\ SubSeq(doc, 1, m - 1) = SubSeq(target_before, 1, m - 1)
            /\ SubSeq(doc, m + k, Len(doc)) =
                   SubSeq(target_before, m + 1, Len(target_before))

\* C3: after a splice by a variant that copies paragraphs and tables the body
\* has n - 1 + k blocks, n the block count before and k the number of non-blank
\* paragraphs plus tables of the content body, wherever the marker stood.
C3_CountInvariant ==
    (Spliced /\ op \in CopyOps) =>
        Len(doc) = Len(target_before) - 1 + RetainedCount(content_file.body)

\* a splice of two blocks at a marker in the middle of a three-block body
C3_Witness ==
    /\ Spliced
    /\ op = "CacBuocThucHienProcessor.replace_placeholder"
    /\ Len(target_before) = 3
    /\ MarkerPos(target_before) = 2
    /\ RetainedCount(content_file.body) = 2
    /\ Len(doc) = 4

\* the blocks of body whose ids are in ids, in body order
WithIds(body, ids) ==
    LET In(b) == b.id \in ids IN SelectSeq(body, In)

\* id and run texts of each block of a sequence of paragraphs
TextsOf(blocks) ==
    [i \in 1..Len(blocks) |->
        [id |-> blocks[i].id,
         texts |-> [j \in 1..Len(blocks[i].runs) |-> blocks[i].runs[j].text]]]

SuccessValue ==
    IF op \in FormattedOps
          \cup {"PhamViCungCapProcessor.replace_placeholder",
                "CacBuocThucHienProcessor.replace_placeholder"}
    THEN "None" ELSE "True"

\* C5: when no body paragraph holds the placeholder, what the
\* call returns differs from what it returns after a replacement.
C5_MissingMarkerReported ==
    (Completed /\ op \in CopyOps \cup FormattedOps
        /\ Markers(target_before) = <<>>) => ret # SuccessValue

\* C6: when no body paragraph holds the placeholder, the
\* in-memory target and the file at the output path are what they were
\* before the call.
C6_NoMutationWhenAbsent ==
    (Completed /\ Markers(target_before) = <<>>) =>
        /\ doc = target_before
        /\ output_file = output_before
\* ------------------------------------------------- claims on the pipeline
\* the run is over: the script exited or the request handler is through
RunEnded == history # <<>> /\ pc \in {"exited", "responded"}

\* the step that ran last is one of the placeholder steps after the first and
\* got as far as loading a document and saving it
LaterStepRan ==
    /\ last.tag \in AllTags \ {ten_goi_thau}
    /\ last.result = "True"

\* C7: in every orchestrator each step after the first replaces in the
\* document the previous step left at the output path, and a run that ends
\* in success has all five placeholders substituted in its output.
C7_SequentialAccumulation ==
    /\ LaterStepRan => last.input = last.before.body
    /\ pc = "done" => substituted = AllTags

\* the steps run so far are the first steps of the fixed order
InFixedOrder ==
    /\ Len(history) <= Len(Order)
    /\ \A i \in 1..Len(history) : history[i].tag = Order[i]

\* C8: the one-pass orchestrators run the steps in the fixed order, run a step
\* only after every earlier step reported success, stop at the first failure
\* with an error text that holds the failing step's placeholder, and end in
\* success only after all five steps reported success.
C8_StopOnFirstFailure ==
    orchestrator \in {Local, Clean} =>
        /\ InFixedOrder
        /\ \A i \in 1..(Len(history) - 1) : history[i].result = "True"
        /\ pc = "failed" =>
               /\ history # <<>>
               /\ history[Len(history)].result # "True"
               /\ Contains(error, Placeholder(history[Len(history)].tag))
        /\ pc = "done" =>
               /\ Len(history) = Len(Order)
               /\ \A i \in 1..Len(history) : history[i].result = "True"

\* C9: once a run has ended, a document at the output path has every
\* placeholder substituted; a failed run leaves no partly substituted one.
C9_NoPartialOutput ==
    (RunEnded /\ output_file.exists) => substituted = AllTags

\* some body paragraph of the file holds the sentinel text
HoldsSentinel(file) ==
    \E i \in 1..Len(file.body) :
        IsParagraph(file.body[i])
            /\ Contains(text(file.body[i]), KHONG_TIM_THAY)

\* C10: when a producer of the step failed (no text from the PDF, an
\* exception of the model call, the sentinel, a step count other than 21 or
\* 23) the step does not report success, the sentinel is not in the document
\* at the output path, and after a later step than the first that document
\* is what it was before the step.
C10_UpstreamFailureAborts ==
    last.upstream =>
        /\ last.result # "True"
        /\ ~HoldsSentinel(output_file)
        /\ last.tag # ten_goi_thau => output_file = last.before
\* the ids of the blocks the producer of a placeholder writes
ProducedIds(tag) ==
    CASE tag = pham_vi_cung_cap -> {create_docx_table.body[1].id}
      [] tag = can_cu_phap_ly ->
             {b.id : b \in {markdown_to_docx(MaxLines + 1, 20).body[i] :
                               i \in 1..(MaxLines + 1)}}
      [] tag = muc_dich_cong_viec ->
             {b.id : b \in {markdown_to_docx(MaxLines + 1, 30).body[i] :
                               i \in 1..(MaxLines + 1)}}
      [] tag = cac_buoc_thuc_hien ->
             {BUOC_21.body[i].id : i \in 1..Len(BUOC_21.body)}
                 \cup {BUOC_23.body[i].id : i \in 1..Len(BUOC_23.body)}
      [] OTHER -> {}

\* some body paragraph of the file holds the placeholder as literal text
StillLiteral(tag, file) ==
    \E i \in 1..Len(file.body) :
        IsParagraph(file.body[i])
            /\ Contains(text(file.body[i]), Placeholder(tag))

\* the file holds what the producer of the placeholder returned: a block it
\* wrote, or for ten_goi_thau the paragraph with the returned text put in
Replaced(tag, file) ==
    IF tag = ten_goi_thau
    THEN \E i \in 1..Len(file.body) :
             /\ file.body[i].id = 1
             /\ ~Contains(text(file.body[i]), Placeholder(tag))
    ELSE \E i \in 1..Len(file.body) : file.body[i].id \in ProducedIds(tag)

\* the run is over and reported success
RunSucceeded == RunEnded /\ history[Len(history)].result = "True"

\* the documents a successful run hands over: the file at the output path of
\* the command-line run, api_result.docx of the API
Emitted ==
    IF RunSucceeded THEN {f \in {output_file, api_result} : f.exists} ELSE {}

\* C11: in every document the pipeline emits each placeholder of the template
\* is either replaced by what its producer returned (at least one block, or
\* the text) or still there as literal text; no marker paragraph is removed
\* with nothing put in its place.
C11_NothingDropped ==
    \A file \in Emitted :
        \A tag \in AllTags :
            StillLiteral(tag, template_file) =>
                StillLiteral(tag, file) \/ Replaced(tag, file)

\* C12: the command-line run exits with 0 exactly when every one of the five
\* placeholders was substituted in the output document, and with another
\* code when a placeholder is left uncovered or its step raised.
C12_ExitStatus ==
    exit_code >= 0 => (exit_code = 0 <=> substituted = AllTags)
\* every row of a table, the rows of nested tables included
AllRows(t) ==
    UNION {{[trPr |-> t.rows[r].trPr, trHeight |-> t.rows[r].trHeight]}
             \cup {t.rows[r].nested[n] : n \in 1..Len(t.rows[r].nested)} :
           r \in 1..Len(t.rows)}

\* the block holds the configured values exactly once: a paragraph one
\* spacing entry, every row of a table one height entry
Overridden(b) ==
    IF IsParagraph(b) THEN b.pPr /\ b.spacing = <<SpacingOverride>>
    ELSE \A row \in AllRows(b) : row.trPr /\ row.trHeight = <<HeightOverride>>

\* C13: after the override each copied paragraph holds exactly one spacing
\* entry and each row of a copied table exactly one height entry, with the
\* configured values, whatever properties they had before; applying the
\* override a second time changes nothing.
C13_OverrideIdempotent ==
    /\ op \in {"once", "twice"} => \A i \in 1..Len(doc) : Overridden(doc[i])
    /\ op = "twice" => doc = target_before
\* C14: is_sub_step returns False exactly for the labels that consist purely
\* of digits and True for every other label, the empty label, blank labels
\* and labels with surrounding whitespace included.
C14_SubStepPredicate ==
    sub_step # "idle" => (sub_step = "False" <=> isdigit(step_text))

\* both cells of row i of the built table are italic / are bold
Italic(i) == \A c \in 1..2 : step_doc.table[i][c].italic = "True"
NonItalic(i) == \A c \in 1..2 : step_doc.table[i][c].italic # "True"
Bold(i) == \A c \in 1..2 : step_doc.table[i][c].bold = "True"
NonBold(i) == \A c \in 1..2 : step_doc.table[i][c].bold # "True"

\* C15: in the table create_formatted_docx builds, the first row is bold and
\* non-italic whatever its label; every later row has both cells italic when
\* is_sub_step holds of the label in its first cell and both non-italic
\* otherwise, and is not bold.
C15_RowStyling ==
    step_doc.exists =>
        /\ Len(step_doc.table) = Len(parsed_rows)
        /\ \A i \in 1..Len(step_doc.table) :
              IF i = 1 THEN Bold(i) /\ NonItalic(i)
              ELSE /\ NonBold(i)
                   /\ IF is_sub_step(step_doc.table[i][1].text) THEN Italic(i)
                      ELSE NonItalic(i)

\* C15 witness: a table with a header whose label is a sub-step label, a
\* main step in the second row and a sub-step in the third
C15_Witness ==
    /\ step_doc.exists
    /\ Len(step_doc.table) = 3
    /\ is_sub_step(step_doc.table[1][1].text)
    /\ ~is_sub_step(step_doc.table[2][1].text)
    /\ is_sub_step(step_doc.table[3][1].text)
    /\ Italic(3)
\* the copy of content block b in the spliced body: same id, and for a table
\* the same number of rows
HasCopy(b) ==
    \E i \in 1..Len(doc) :
        /\ doc[i].id = b.id
        /\ doc[i].kind = b.kind
        /\ IsTable(b) => Len(doc[i].rows) = Len(b.rows)

\* C16: after a splice by any variant, can_cu / muc_dich included, the body
\* holds a copy of every non-blank paragraph and of every table (with all its
\* rows) of the content document, and no copy of a blank paragraph.
C16_SelectionFilter ==
    (Spliced /\ op \in CopyOps \cup FormattedOps) =>
        \A j \in 1..Len(content_file.body) :
            LET b == content_file.body[j]
            IN  IF Retained(b) THEN HasCopy(b)
                ELSE \A i \in 1..Len(doc) : doc[i].id # b.id
InCell(b) ==
    /\ IsTable(b)
    /\ \E r \in 1..Len(b.rows) : \E c \in 1..Len(b.rows[r].cells) :
          \E q \in 1..Len(b.rows[r].cells[c]) :
              Contains(runs_text(b.rows[r].cells[c][q].runs), PH)

\* the target holds the placeholder in a table cell and in no body paragraph
OnlyInTable(body) ==
    /\ Markers(body) = <<>>
    /\ \E i \in 1..Len(body) : InCell(body[i])

\* C18: when the placeholder occurs only inside a table cell of the target, no
\* replace operation, block splice or replace_placeholder_in_docx, treats it
\* as the marker: the target keeps every block as it was and the operation
\* does not report a replacement.
C18_TablesNotScanned ==
    (op # "idle" /\ ret # "raise" /\ target_before # <<>>
        /\ OnlyInTable(target_before)) =>
        /\ doc = target_before
        /\ ret # "True"
\* the pipeline has started: past the check of the required files
Started ==
    /\ orchestrator # "none"
    /\ pc \notin {"idle", "main"}
    /\ ~(pc = "exited" /\ history = <<>>)

\* the ids of the blocks an earlier run left in its output, in processed/ and
\* in the step backups
StaleIds ==
    {StaleOutput[i].id : i \in 1..Len(StaleOutput)}
        \cup {StaleProcessed.body[i].id : i \in 1..Len(StaleProcessed.body)}

HoldsStale(file) ==
    file.exists /\ \E i \in 1..Len(file.body) : file.body[i].id \in StaleIds

\* every file the pipeline reads or writes
WorkFiles ==
    {output_file, api_result}
        \cup {processed[t] : t \in ProcessedTags}
        \cup {backups[n] : n \in BackupNames}

\* C19: whatever an earlier run left behind (output document, processed/
\* folders, step backups), a run of the full pipeline starts its first step
\* with none of it in place, loads the original template in that step, and at
\* no point holds a block of the earlier run in a file it reads or writes; so
\* the output depends on the template and the producers' outputs alone.
C19_Deterministic ==
    Started =>
        /\ \A file \in WorkFiles : ~HoldsStale(file)
        /\ (pc = "step1" /\ history = <<>>) =>
              \A file \in WorkFiles : ~file.exists
        /\ (last.tag = ten_goi_thau /\ last.input # <<>>) =>
              last.input = template_file.body

\* C19 witness: a run that found an old output document in place and ended
\* with every placeholder replaced
C19_Witness ==
    /\ output_before = File(StaleOutput)
    /\ RunSucceeded
    /\ exit_code = 0
    /\ substituted = AllTags
    /\ output_file.exists
    /\ ~HoldsStale(output_file)
\* C20: whatever the interleaving of the handlers and of the deliveries of two
\* requests to /api/process-document, the document delivered to a request is
\* the one generated from that request's own uploads.
C20_ExclusiveOutput ==
    \A r \in DOMAIN requests :
        requests[r].pc = "delivered" =>
            requests[r].response = generated(requests[r].upload)
\* the ids of the blocks of a file
FileIds(file) == {file.body[i].id : i \in 1..Len(file.body)}

\* the output holds blocks of the given pre-made document
Uses(premade) == output_file.exists /\ FileIds(output_file) \cap FileIds(premade) # {}

\* C21: the step detector returns 21 only for the answer "21", 23 only for
\* the answer "23" and None for every other answer, for UNKNOWN and for a
\* failed call; process_complete_workflow puts the blocks of 21_BUOC.docx in
\* the output only when the result is 21 and those of 23_BUOC.docx only when
\* it is 23, and with an unknown result returns False leaving the output file
\* as it was.
C21_StepCountSelection ==
    returned.name = "process_complete_workflow" =>
        /\ returned.step_count = "21" <=>
              (returned.step_count # "not asked" /\ args.answer = "21")
        /\ returned.step_count = "23" <=>
              (returned.step_count # "not asked" /\ args.answer = "23")
        /\ Uses(BUOC_21) => returned.step_count = "21"
        /\ Uses(BUOC_23) => returned.step_count = "23"
        /\ returned.result = "True" =>
              /\ returned.step_count = "21" => Uses(BUOC_21)
              /\ returned.step_count = "23" => Uses(BUOC_23)
        /\ returned.step_count = "None" =>
              returned.result = "False" /\ output_file = output_before

\* C21 witness: the answer "23" put the blocks of 23_BUOC.docx in the output
C21_Witness ==
    /\ returned.name = "process_complete_workflow"
    /\ args.answer = "23"
    /\ returned.result = "True"
    /\ Uses(BUOC_23)
    /\ ~Uses(BUOC_21)
\* a request whose saved uploads do not cover the five required PDFs
MissingUpload(r) == required_pdfs \ requests[r].saved # {}

\* C22: a handled request whose saved uploads do not cover the five required
\* PDFs was answered with status 400, and no placeholder step was started
\* for it.
C22_MissingUploadIs400 ==
    \A r \in DOMAIN requests :
        (requests[r].pc # "received" /\ MissingUpload(r)) =>
            (requests[r].status = 400 /\ ~requests[r].started)

RunOffset(runs, i) == Len(runs_text(SubSeq(runs, 1, i - 1)))

\* whether the text holds the placeholder at offset n (0-based)
OccursAt(t, n, placeholder) ==
    /\ n + Len(placeholder) <= Len(t)
    /\ SubSeq(t, n + 1, n + Len(placeholder)) = placeholder

\* C24: after the run-level replacement in a paragraph that holds the
\* placeholder, however its text is split into runs, the concatenation of the
\* run texts is the original text with the first occurrence of the
\* placeholder replaced by the content, the paragraph has as many runs as
\* before, and every run lying entirely outside the span of the placeholder
\* keeps its text.
C24_RunLevelReplacement ==
    returned.name = "replace_placeholder_in_docx" =>
        LET placeholder == Placeholder(ten_goi_thau)
            before == runs_text(args.runs)
            n == CHOOSE k \in 0..Len(before) :
                     /\ OccursAt(before, k, placeholder)
                     /\ \A j \in 0..(k - 1) : ~OccursAt(before, j, placeholder)
        IN  /\ returned.replaced
            /\ runs_text(returned.runs) =
                   SubSeq(before, 1, n) \o args.content
                   \o SubSeq(before, n + Len(placeholder) + 1, Len(before))
            /\ Len(returned.runs) = Len(args.runs)
            /\ \A i \in 1..Len(args.runs) :
                  (\/ RunOffset(args.runs, i + 1) <= n
                   \/ RunOffset(args.runs, i) >= n + Len(placeholder)) =>
                      returned.runs[i] = args.runs[i]
            /\ \A i \in 1..Len(args.runs) :
                  returned.runs[i].size = args.runs[i].size

\* C24 witness: a placeholder spread over three runs, one of them between
\* the run where it starts and the run where it ends, next to an empty run,
\* has been replaced
C24_Witness ==
    /\ returned.name = "replace_placeholder_in_docx"
    /\ returned.replaced
    /\ Len(args.runs) >= 3
    /\ \E i \in 2..(Len(args.runs) - 1) :
          /\ args.runs[i].text # <<>>
          /\ returned.runs[i].text = <<>>
    /\ \E i \in 1..Len(args.runs) : args.runs[i].text = <<>>
    /\ args.content # <<>>
\* C25: smart_replace and smart_replace_final, working on the output file in
\* place, leave the blocks that replace_placeholder_only produces from the
\* same target and content, spacing override and minimum row height of the
\* inserted blocks included, and return what replace_placeholder_only returns.
C25_InPlaceSpliceEquivalent ==
    (/\ op \in {"smart_replace", "smart_replace_final"}
     /\ output_before.exists
     /\ content_file.exists) =>
        LET own == replace_placeholder_only(File(target_before), content_file,
                                            PH)
        IN  /\ output_file = own.output
            /\ ret = own.ret
\* the stripped lines that hold a comma and lie after a TABLE_START line and
\* before every TABLE_END line, in input order, from line i on
RECURSIVE RowsBetween(_, _)
RowsBetween(lines, i) ==
    IF i > Len(lines) THEN <<>>
    ELSE (IF /\ Contains(stripped(lines[i]), <<",">>)
             /\ \E j \in 1..(i - 1) : stripped(lines[j]) = <<TABLE_START>>
             /\ \A j \in 1..(i - 1) : stripped(lines[j]) # <<TABLE_END>>
          THEN <<stripped(lines[i])>> ELSE <<>>)
         \o RowsBetween(lines, i + 1)

\* the text after the prefix of the last line that starts with it
AfterPrefix(lines, prefix) ==
    LET hits == {i \in 1..Len(lines) : startswith(stripped(lines[i]), <<prefix>>)}
    IN  IF hits = {} THEN <<>>
        ELSE LET i == CHOOSE k \in hits : \A j \in hits : j <= k
             IN  stripped(Tail(stripped(lines[i])))

\* C26: the rows parse_extracted_section returns are the stripped lines that
\* hold a comma and lie after the TABLE_START line and before the TABLE_END
\* line, in input order, no line after a TABLE_END line being returned also
\* when the markers repeat; paragraph1 and paragraph2 are the texts after
\* their prefixes.
C26_TableRowsBetweenMarkers ==
    returned.name = "parse_extracted_section" =>
        /\ returned.table_rows = RowsBetween(args.lines, 1)
        /\ returned.paragraph1 = AfterPrefix(args.lines, PARAGRAPH1)
        /\ returned.paragraph2 = AfterPrefix(args.lines, PARAGRAPH2)
\* the lines of a text that are not blank
NonBlank(lines) == {i \in 1..Len(lines) : stripped(lines[i]) # <<>>}

\* the lines at which a paragraph begins: the first line that is not blank,
\* a line that starts with a dash, a line that follows a blank line
Begins(lines) ==
    {i \in NonBlank(lines) :
        \/ \A j \in 1..(i - 1) : j \notin NonBlank(lines)
        \/ startswith(stripped(lines[i]), <<"-">>)
        \/ (i - 1) \notin NonBlank(lines)}

\* the stripped lines i..j that are not blank, joined by one space
RECURSIVE Joined(_, _, _)
Joined(lines, i, j) ==
    IF i > j THEN <<>>
    ELSE IF i \notin NonBlank(lines) THEN Joined(lines, i + 1, j)
    ELSE LET rest == Joined(lines, i + 1, j)
         IN  IF rest = <<>> THEN stripped(lines[i])
             ELSE stripped(lines[i]) \o <<" ">> \o rest

\* the paragraph that begins at line i: up to the line before the next begin
ParagraphAt(lines, i) ==
    LET later == {k \in Begins(lines) : k > i}
        last_line == IF later = {} THEN Len(lines)
                     ELSE (CHOOSE k \in later : \A m \in later : k <= m) - 1
    IN  Joined(lines, i, last_line)

\* C27: the paragraphs parse_text_into_paragraphs returns are, in input
\* order, one per line that begins a paragraph (the first non-blank line,
\* every line starting with '-', every line after a blank line), each made of
\* that line and the non-blank lines up to the next such line joined by one
\* space: no paragraph is empty and every non-blank line is in exactly one.
C27_ParagraphGrouping ==
    returned.name = "parse_text_into_paragraphs" =>
        LET lines == args.lines
            result == returned.paragraphs
        IN  /\ Len(result) = Cardinality(Begins(lines))
            /\ \A i \in Begins(lines) :
                  result[Cardinality({k \in Begins(lines) : k <= i})] =
                      ParagraphAt(lines, i)
            /\ \A n \in 1..Len(result) : result[n] # <<>>

\* C27 witness: a text with a continuation line, a dash line right after
\* another line and a blank line between two lines, parsed into paragraphs
C27_Witness ==
    /\ returned.name = "parse_text_into_paragraphs"
    /\ Len(returned.paragraphs) >= 2
    /\ \E i \in 2..Len(args.lines) :
          /\ {i - 1, i} \subseteq NonBlank(args.lines)
          /\ startswith(stripped(args.lines[i]), <<"-">>)
    /\ \E i \in 2..Len(args.lines) :
          /\ {i - 1, i} \subseteq NonBlank(args.lines)
          /\ ~startswith(stripped(args.lines[i]), <<"-">>)
    /\ \E n \in 1..Len(returned.paragraphs) :
          Contains(returned.paragraphs[n], <<" ">>)
\* the offset at which the heading line ends: its newline, or the end of the
\* heading text in a PDF text without a later newline
HeadingLineEnd(pdf, heading_pos, heading_text) ==
    LET newlines == {i \in heading_pos..(Len(pdf) - 1) : pdf[i + 1] = "\n"}
    IN  IF newlines = {} THEN heading_pos + Len(heading_text)
        ELSE CHOOSE i \in newlines : \A j \in newlines : i <= j

\* C28: extract_text_between_boundaries returns the empty text when the
\* heading is not located, the table start is not located, or the table does
\* not lie strictly after the heading; otherwise what it returns is a piece
\* of the PDF text between the end of the heading line and the table; and
\* test_text_extraction returns False and leaves the output document as it
\* was whenever the extracted text is empty.
C28_BoundaryGuard ==
    returned.name = "test_text_extraction" =>
        LET pdf == args.pdf_content
            heading_pos == heading_position(pdf, args.heading_text)
            table_pos == table_position(pdf, args.table_start_text)
            extracted == returned.extracted_text
        IN  /\ (heading_pos = -1 \/ table_pos = -1 \/ table_pos <= heading_pos)
                   => extracted = <<>>
            /\ extracted # <<>> =>
                   \E a, b \in 0..Len(pdf) :
                       /\ HeadingLineEnd(pdf, heading_pos, args.heading_text)
                              <= a
                       /\ a < b
                       /\ b <= table_pos
                       /\ extracted = SubSeq(pdf, a + 1, b)
            /\ extracted = <<>> =>
                   (returned.result = "False" /\ output_file = output_before)

\* C28 witness: heading and table are both located, the table before the
\* heading, and the run ended in failure with the stale output in place
C28_Witness ==
    /\ returned.name = "test_text_extraction"
    /\ heading_position(args.pdf_content, args.heading_text) > 0
    /\ table_position(args.pdf_content, args.table_start_text) >= 0
    /\ table_position(args.pdf_content, args.table_start_text)
           < heading_position(args.pdf_content, args.heading_text)
    /\ returned.result = "False"
    /\ output_file = File(StaleOutput)
\* C30: replace_text_variables_preserve_runs on a paragraph that holds the
\* marker of a variable, however its text is split into runs, ends without
\* an index error, and the concatenation of the run texts afterwards is the
\* original text with the marker replaced by the value, no text of a run
\* outside the matched window being lost.
C30_CrossRunReplacement ==
    returned.name = "replace_text_variables_preserve_runs" =>
        LET placeholder == Placeholder(ten_goi_thau)
            before == runs_text(args.runs)
            n == CHOOSE k \in 0..Len(before) :
                     /\ OccursAt(before, k, placeholder)
                     /\ \A j \in 0..(k - 1) : ~OccursAt(before, j, placeholder)
        IN  /\ returned.raised = "none"
            /\ runs_text(returned.runs) =
                   SubSeq(before, 1, n) \o args.val
                   \o SubSeq(before, n + Len(placeholder) + 1, Len(before))
====
